---- MODULE Spec2Model ----
(***************************************************************************)
(* State machine of the PETSc time-integration driver (PetscSolver), its   *)
(* state-vector codec (loop_vars / loop_vars_op / load_vars / save_vars /  *)
(* save_derivs) and its output-time scheduling (run / rhs / PreStep).      *)
(*                                                                         *)
(* Times and field values are integers: the model follows which value is   *)
(* copied where and which comparison is made, not floating-point rounding. *)
(***************************************************************************)
EXTENDS Integers, Sequences, FiniteSets, TLC

(***************************************************************************)
(* Bounds of the explored inputs.                                          *)
(***************************************************************************)
MaxGuard == 2       \* guard / boundary width in X and in Y (mesh->xstart, mesh->ystart)
MaxInner == 2       \* interior points per direction (xend-xstart+1, yend-ystart+1)
MaxPlanes == 2      \* toroidal planes copied per point (mesh->ngz - 1)
MaxScalars == 2     \* scalar variables registered per dimensionality
MaxNout == 2        \* NOUT, the number of outputs asked for, is 1..MaxNout
MaxTstep == 2       \* TIMESTEP, the output interval, is 1..MaxTstep
MaxDt == 2          \* the integrator's internal sub-step is 1..MaxDt
MaxRhs == 3         \* residual evaluations the integrator makes in one explored run
MaxWall == 1        \* wall-clock ticks one residual evaluation takes, 1..MaxWall
MaxCoef == 1        \* coefficients of the sample fields the operators are applied to, 0..MaxCoef
MaxFields == 2      \* FieldData objects constructed
MaxRegions == 2     \* boundary regions of the mesh, mesh->getBoundaries()
MaxParRegions == 1  \* parallel boundary regions of the mesh, mesh->getBoundariesPar()
MaxOps == 3         \* boundary operators the factory creates in one explored history

VARIABLES
  mesh,      \* the local mesh: index ranges, boundary ownership, Y-boundary iterators
  f2d,       \* registry of 2D variables: <<[var, F_var]>>
  f3d,       \* registry of 3D variables: <<[var, F_var, location]>>
  v2d,       \* registry of 2D vectors: <<[c, covariant, var_cov, F_cov]>>
  v3d,       \* registry of 3D vectors: <<[c, covariant, var_cov, F_cov]>>
  u,         \* the array of the driver's state vector (PETSc Vec u), <<>> before VecSetSizes
  du,        \* the array rhs wrote the time-derivatives to in its last call
  codec,     \* history: what the last traversal of each mode touched
  assigned,  \* history: the registry with the values assigned before init
  errlog,    \* history: the errors reported through bout_error
  runlog,    \* history: the calls of TSStep run made, and what run returned
  env,       \* the environment of the run: options, the failing PETSc call, user physics
  phase,     \* where the driver is in its life: constructed, probing, ready, failed, ...
  initpc,    \* while init is suspended in the Jacobian probe: the step it resumes at
  done,      \* history: the steps of init executed so far, in order
  res,       \* the PETSc objects u, J, matfdcoloring, ts: none, live, freed or bad
  ts,        \* the integrator context: registered callbacks, time, step, step count
  nout, tstep,                     \* NOUT and TIMESTEP saved by init
  simtime, next_time, outputnext,  \* recorded time, next output time, PreStep's flag
  iteration, rhs_ncalls, rhs_wtime,\* output counter and the per-interval counters
  initialised,                     \* Solver::initialised
  nrhs,      \* history: number of residual evaluations so far
  last,      \* history: the last call of rhs (its inputs, its return, the state before)
  outlog,    \* history: one record per increment of the iteration counter
  coords,    \* mesh->coordinates() and the mesh flags the differential operators read
  deriv,     \* the last call of a differential operator: its arguments and what it returned
  fields     \* the FieldData objects and the boundary operators the factory allocated

(***************************************************************************)
(* Small helpers.                                                          *)
(***************************************************************************)
Range(a, b) == [k \in 1..(b - a + 1) |-> a + k - 1]

NULL == <<>>        \* getData() of a field without backing storage

Garbage == -7       \* content of freshly allocated, never written storage

Ops == {"LOAD_VARS", "SAVE_VARS", "SAVE_DERIVS"}

Locations == {"CELL_CENTRE", "CELL_XLOW", "CELL_YLOW"}

(***************************************************************************)
(* Mesh (external collaborator): the data the codec reads from it.         *)
(***************************************************************************)
Pts2(m) == (0..(m.ngx - 1)) \X (0..(m.ngy - 1))

Pts3(m) == (0..(m.ngx - 1)) \X (0..(m.ngy - 1)) \X (0..(m.ngz - 1))

\* What the mesh tells the codec about the boundaries of this processor's domain:
\* whether it owns the inner / outer X boundary (firstX, lastX) and the ordered X
\* indices its lower-Y and upper-Y boundary iterators yield.  xs..xe is the interior
\* X range, nx the number of X points.
Layouts(xs, xe, nx) ==
  { \* one processor holding the whole domain
    [firstX |-> TRUE, lastX |-> TRUE, lowerY |-> Range(xs, xe), upperY |-> Range(xs, xe)],
    \* an interior processor: no boundary at all
    [firstX |-> FALSE, lastX |-> FALSE, lowerY |-> NULL, upperY |-> NULL],
    \* inner X boundary only, periodic in Y
    [firstX |-> TRUE, lastX |-> FALSE, lowerY |-> NULL, upperY |-> NULL],
    \* outer X boundary, a lower Y boundary that includes the X guard cells
    [firstX |-> FALSE, lastX |-> TRUE, lowerY |-> Range(0, nx - 1), upperY |-> NULL],
    \* Y boundaries over a part of the X range each
    [firstX |-> FALSE, lastX |-> FALSE, lowerY |-> Range(xs, xs), upperY |-> Range(xe, xe)],
    \* an upper Y boundary of two ranges chained out of ascending order
    [firstX |-> TRUE, lastX |-> TRUE, lowerY |-> Range(xs, xe),
     upperY |-> IF xe > xs THEN <<xe, xs>> ELSE <<xs>>] }

MeshOf(gx, gy, nxi, nyi, nz, lay) ==
  [ngx |-> nxi + 2 * gx, ngy |-> nyi + 2 * gy, ngz |-> nz + 1,
   xstart |-> gx, xend |-> gx + nxi - 1,
   ystart |-> gy, yend |-> gy + nyi - 1,
   firstX |-> lay.firstX, lastX |-> lay.lastX,
   lowerY |-> lay.lowerY, upperY |-> lay.upperY]

\* The local meshes explored: the smallest and the largest number of guard cells,
\* interior points in X and Y, and toroidal planes, with every boundary layout
Meshes ==
  UNION { { MeshOf(g, g, nxi, nyi, nz, lay) :
              nyi \in {1, MaxInner}, nz \in {1, MaxPlanes},
              lay \in Layouts(g, g + nxi - 1, nxi + 2 * g) } :
          g \in {1, MaxGuard}, nxi \in {1, MaxInner} }

\* The mesh of one processor holding the whole domain, with one interior point and
\* one toroidal plane
SmallMesh ==
  MeshOf(1, 1, 1, 1, 1,
         [firstX |-> TRUE, lastX |-> TRUE, lowerY |-> <<1>>, upperY |-> <<1>>])

\* The largest mesh of one processor holding the whole domain
FullMesh ==
  MeshOf(MaxGuard, MaxGuard, MaxInner, MaxInner, MaxPlanes,
         [firstX |-> TRUE, lastX |-> TRUE,
          lowerY |-> Range(MaxGuard, MaxGuard + MaxInner - 1),
          upperY |-> <<MaxGuard + MaxInner - 1, MaxGuard>>])

(***************************************************************************)
(* Fields and vectors (external types): what the solver reads and writes.  *)
(***************************************************************************)
\* Field2D::allocate / Field3D::allocate: storage is created only when there is none
allocate(data, pts) == IF data = NULL THEN [q \in pts |-> Garbage] ELSE data

\* The metric used by Vector::toCovariant (g_ij) and Vector::toContravariant (g^ij):
\* a symmetric matrix and its inverse.
g_cov == << <<2, 1, 0>>, <<1, 1, 0>>, <<0, 0, 1>> >>

g_con == << <<1, -1, 0>>, <<-1, 2, 0>>, <<0, 0, 1>> >>

\* The three components of vector vec (indices c into the field list F), taken from
\* the fields' part ("var" or "F_var"), multiplied point by point by the matrix g.
ApplyMetric(F, c, part, g) ==
  LET x == F[c[1]][part].data
      y == F[c[2]][part].data
      z == F[c[3]][part].data
      row(r) == [q \in DOMAIN x |-> g[r][1] * x[q] + g[r][2] * y[q] + g[r][3] * z[q]]
  IN [F EXCEPT ![c[1]][part].data = row(1),
               ![c[2]][part].data = row(2),
               ![c[3]][part].data = row(3)]

\* Vector::toCovariant: converts the components unless the vector is covariant already
toCovariant(F, c, part, isCov) == IF isCov THEN F ELSE ApplyMetric(F, c, part, g_cov)

\* Vector::toContravariant: converts the components unless contravariant already
toContravariant(F, c, part, isCov) == IF isCov THEN ApplyMetric(F, c, part, g_con) ELSE F

\* interp_to(f, loc): the field interpolated onto cell location loc (the sum of the
\* value and its lower Y neighbour stands for the interpolation stencil); a field that
\* is at loc already, or asked to stay where it is (CELL_DEFAULT), is returned as it is
interp_to(fld, loc) ==
  IF fld.location = loc \/ loc = "CELL_DEFAULT"
  THEN fld
  ELSE [location |-> loc,
        data |-> [q \in DOMAIN fld.data |->
                    fld.data[q]
                    + fld.data[<<q[1], IF q[2] > 0 THEN q[2] - 1 ELSE q[2], q[3]>>]]]

(***************************************************************************)
(* PetscSolver::loop_vars_op: the transfers at one (jx,jy) location.       *)
(* st = [p, udata, f2, f3, lay, vis]: p the position in udata (0-based as  *)
(* in the code; udata[p] of the code is st.udata[p+1] here), f2/f3 the     *)
(* variable lists, lay the identity of every buffer entry accessed so far, *)
(* vis the locations visited so far.                                       *)
(***************************************************************************)
n2Dvars == Len(f2d)

n3Dvars == Len(f3d)

\* body2d with LOAD reading udata[0] instead of udata[p]
body2d_first(op, i, jx, jy, st) ==
  LET q == <<jx, jy>>
      nxt == [st EXCEPT !.p = @ + 1,
                        !.lay = Append(@, [x |-> jx, y |-> jy, z |-> -1, dim |-> 2, i |-> i])]
  IN CASE op = "LOAD_VARS" ->
            [nxt EXCEPT !.f2[i + 1].var.data[q] = st.udata[1]]
       [] op = "SAVE_VARS" ->
            [nxt EXCEPT !.udata[st.p + 1] = st.f2[i + 1].var.data[q]]
       [] op = "SAVE_DERIVS" ->
            [nxt EXCEPT !.udata[st.p + 1] = st.f2[i + 1].F_var.data[q]]

\* The statement inside "for(i=0;i<n2d;i++)" of each case of the switch
body2d(op, i, jx, jy, st) ==
  LET q == <<jx, jy>>
      nxt == [st EXCEPT !.p = @ + 1,
                        !.lay = Append(@, [x |-> jx, y |-> jy, z |-> -1, dim |-> 2, i |-> i])]
  IN CASE op = "LOAD_VARS" ->
            [nxt EXCEPT !.f2[i + 1].var.data[q] = st.udata[st.p + 1]]
       [] op = "SAVE_VARS" ->
            [nxt EXCEPT !.udata[st.p + 1] = st.f2[i + 1].var.data[q]]
       [] op = "SAVE_DERIVS" ->
            [nxt EXCEPT !.udata[st.p + 1] = st.f2[i + 1].F_var.data[q]]

\* The statement inside "for (jz...) for(i=0;i<n3d;i++)" of each case of the switch
body3d(op, jz, i, jx, jy, st) ==
  LET q == <<jx, jy, jz>>
      nxt == [st EXCEPT !.p = @ + 1,
                        !.lay = Append(@, [x |-> jx, y |-> jy, z |-> jz, dim |-> 3, i |-> i])]
  IN CASE op = "LOAD_VARS" ->
            [nxt EXCEPT !.f3[i + 1].var.data[q] = st.udata[st.p + 1]]
       [] op = "SAVE_VARS" ->
            [nxt EXCEPT !.udata[st.p + 1] = st.f3[i + 1].var.data[q]]
       [] op = "SAVE_DERIVS" ->
            [nxt EXCEPT !.udata[st.p + 1] = st.f3[i + 1].F_var.data[q]]

\* for(i=0;i<n2d;i++) { ...; p++; }
RECURSIVE for2d(_, _, _, _, _)
for2d(op, i, jx, jy, st) ==
  IF i < Len(st.f2) THEN for2d(op, i + 1, jx, jy, body2d(op, i, jx, jy, st)) ELSE st

\* for3d with the loops exchanged: for(i=0;i<n3d;i++) for (jz=0; jz < mesh->ngz-1; jz++)
RECURSIVE for3d_varmajor(_, _, _, _, _, _)
for3d_varmajor(op, jz, i, jx, jy, st) ==
  IF i < Len(st.f3)
    THEN IF jz < mesh.ngz - 1
           THEN for3d_varmajor(op, jz + 1, i, jx, jy, body3d(op, jz, i, jx, jy, st))
           ELSE for3d_varmajor(op, 0, i + 1, jx, jy, st)
    ELSE st

\* for (jz=0; jz < mesh->ngz-1; jz++) for(i=0;i<n3d;i++) { ...; p++; }
RECURSIVE for3d(_, _, _, _, _, _)
for3d(op, jz, i, jx, jy, st) ==
  IF jz < mesh.ngz - 1
    THEN IF i < Len(st.f3)
           THEN for3d(op, jz, i + 1, jx, jy, body3d(op, jz, i, jx, jy, st))
           ELSE for3d(op, jz + 1, 0, jx, jy, st)
    ELSE st

\* loop_vars_op with the LOAD case loading the 3D fields before the 2D fields
loop_vars_op_swapped(jx, jy, st, op) ==
  LET s0 == [st EXCEPT !.vis = Append(@, <<jx, jy>>)]
  IN CASE op = "LOAD_VARS" ->
            for2d("LOAD_VARS", 0, jx, jy, for3d("LOAD_VARS", 0, 0, jx, jy, s0))
       [] op = "SAVE_VARS" ->
            for3d("SAVE_VARS", 0, 0, jx, jy, for2d("SAVE_VARS", 0, jx, jy, s0))
       [] op = "SAVE_DERIVS" ->
            for3d("SAVE_DERIVS", 0, 0, jx, jy, for2d("SAVE_DERIVS", 0, jx, jy, s0))

loop_vars_op(jx, jy, st, op) ==
  LET s0 == [st EXCEPT !.vis = Append(@, <<jx, jy>>)]
  IN CASE op = "LOAD_VARS" ->
            for3d("LOAD_VARS", 0, 0, jx, jy, for2d("LOAD_VARS", 0, jx, jy, s0))
       [] op = "SAVE_VARS" ->
            for3d("SAVE_VARS", 0, 0, jx, jy, for2d("SAVE_VARS", 0, jx, jy, s0))
       [] op = "SAVE_DERIVS" ->
            for3d("SAVE_DERIVS", 0, 0, jx, jy, for2d("SAVE_DERIVS", 0, jx, jy, s0))

(***************************************************************************)
(* PetscSolver::loop_vars: the traversal of the local domain.              *)
(***************************************************************************)
\* for each x of xs (outer), for each y of ys (inner): the location <<x, y>>
Nest(xs, ys) ==
  [k \in 1..(Len(xs) * Len(ys)) |->
     <<xs[((k - 1) \div Len(ys)) + 1], ys[((k - 1) % Len(ys)) + 1]>>]

\* loop_vars_op at each location of pts, from the k-th on, in order.  (p is never
\* negative: testing it makes TLC compute st before it goes on to the next location.)
RECURSIVE OpAt(_, _, _, _)
OpAt(pts, k, st, op) ==
  IF k > Len(pts) \/ st.p < 0 THEN st
  ELSE OpAt(pts, k + 1, loop_vars_op(pts[k][1], pts[k][2], st, op), op)

\* loop_vars with the bulk of points traversed before the lower Y boundary region
loop_vars_bulkfirst(udata, op, f2, f3) ==
  LET MYSUB == mesh.yend - mesh.ystart + 1
      start == [p |-> 0, udata |-> udata, f2 |-> f2, f3 |-> f3, lay |-> <<>>, vis |-> <<>>]
      s1 == IF mesh.firstX
              THEN OpAt(Nest(Range(0, mesh.xstart - 1),
                             [jy \in 1..MYSUB |-> (jy - 1) + mesh.ystart]), 1, start, op)
              ELSE start
      s2 == OpAt(Nest(Range(mesh.xstart, mesh.xend), Range(mesh.ystart, mesh.yend)), 1, s1, op)
      s3 == OpAt(Nest(mesh.lowerY, Range(0, mesh.ystart - 1)), 1, s2, op)
      s4 == OpAt(Nest(mesh.upperY, Range(mesh.yend + 1, mesh.ngy - 1)), 1, s3, op)
      s5 == IF mesh.lastX
              THEN OpAt(Nest(Range(mesh.xend + 1, mesh.ngx - 1),
                             Range(mesh.ystart, mesh.yend)), 1, s4, op)
              ELSE s4
  IN s5

\* loop_vars with the lower Y boundary region extended by the first interior row
loop_vars_overlap(udata, op, f2, f3) ==
  LET MYSUB == mesh.yend - mesh.ystart + 1
      start == [p |-> 0, udata |-> udata, f2 |-> f2, f3 |-> f3, lay |-> <<>>, vis |-> <<>>]
      s1 == IF mesh.firstX
              THEN OpAt(Nest(Range(0, mesh.xstart - 1),
                             [jy \in 1..MYSUB |-> (jy - 1) + mesh.ystart]), 1, start, op)
              ELSE start
      s2 == OpAt(Nest(mesh.lowerY, Range(0, mesh.ystart)), 1, s1, op)
      s3 == OpAt(Nest(Range(mesh.xstart, mesh.xend), Range(mesh.ystart, mesh.yend)), 1, s2, op)
      s4 == OpAt(Nest(mesh.upperY, Range(mesh.yend + 1, mesh.ngy - 1)), 1, s3, op)
      s5 == IF mesh.lastX
              THEN OpAt(Nest(Range(mesh.xend + 1, mesh.ngx - 1),
                             Range(mesh.ystart, mesh.yend)), 1, s4, op)
              ELSE s4
  IN s5

loop_vars(udata, op, f2, f3) ==
  LET MYSUB == mesh.yend - mesh.ystart + 1
      start == [p |-> 0, udata |-> udata, f2 |-> f2, f3 |-> f3, lay |-> <<>>, vis |-> <<>>]
      \* Inner X boundary
      s1 == IF mesh.firstX
              THEN OpAt(Nest(Range(0, mesh.xstart - 1),
                             [jy \in 1..MYSUB |-> (jy - 1) + mesh.ystart]), 1, start, op)
              ELSE start
      \* Lower Y boundary region
      s2 == OpAt(Nest(mesh.lowerY, Range(0, mesh.ystart - 1)), 1, s1, op)
      \* Bulk of points
      s3 == OpAt(Nest(Range(mesh.xstart, mesh.xend), Range(mesh.ystart, mesh.yend)), 1, s2, op)
      \* Upper Y boundary condition
      s4 == OpAt(Nest(mesh.upperY, Range(mesh.yend + 1, mesh.ngy - 1)), 1, s3, op)
      \* Outer X boundary
      s5 == IF mesh.lastX
              THEN OpAt(Nest(Range(mesh.xend + 1, mesh.ngx - 1),
                             Range(mesh.ystart, mesh.yend)), 1, s4, op)
              ELSE s4
  IN s5

(***************************************************************************)
(* PetscSolver::load_vars, save_vars, save_derivs.                         *)
(* Each returns the record of everything the call leaves behind.           *)
(***************************************************************************)
\* for(i=0;i<v.size();i++) if(v[i].covariant) toCovariant() else toContravariant(),
\* applied to the part ("var" or "F_var") whose basis flag is the field flag of v[i]
\* ToDeclaredBasis with the two conversions exchanged
RECURSIVE ToDeclaredBasis_swapped(_, _, _, _, _)
ToDeclaredBasis_swapped(F, v, k, part, flag) ==
  IF k > Len(v) THEN F
  ELSE ToDeclaredBasis_swapped(
         IF v[k].covariant THEN toContravariant(F, v[k].c, part, v[k][flag])
                           ELSE toCovariant(F, v[k].c, part, v[k][flag]),
         v, k + 1, part, flag)

RECURSIVE ToDeclaredBasis(_, _, _, _, _)
ToDeclaredBasis(F, v, k, part, flag) ==
  IF k > Len(v) THEN F
  ELSE ToDeclaredBasis(
         IF v[k].covariant THEN toCovariant(F, v[k].c, part, v[k][flag])
                           ELSE toContravariant(F, v[k].c, part, v[k][flag]),
         v, k + 1, part, flag)

\* The basis flag of every vector's part after the conversion above
DeclaredFlags(v, flag) == [k \in 1..Len(v) |-> [v[k] EXCEPT ![flag] = v[k].covariant]]

\* load_vars without the restore of the declared cell location
load_vars_nolocation(udata, f2, f3, V2, V3) ==
  LET a2 == [i \in 1..Len(f2) |-> [f2[i] EXCEPT !.var.data = allocate(@, Pts2(mesh))]]
      a3 == [i \in 1..Len(f3) |-> [f3[i] EXCEPT !.var.data = allocate(@, Pts3(mesh))]]
      result(b2, b3, st) ==
        [f2d |-> st.f2, f3d |-> st.f3,
         v2d |-> DeclaredFlags(V2, "var_cov"), v3d |-> DeclaredFlags(V3, "var_cov"),
         lay |-> st.lay, vis |-> st.vis,
         trace |-> << [step |-> "allocate", f2d |-> b2, f3d |-> b3, v2d |-> V2, v3d |-> V3],
                      [step |-> "loop_vars", f2d |-> st.f2, f3d |-> st.f3,
                       v2d |-> V2, v3d |-> V3],
                      [step |-> "covariant", f2d |-> st.f2, f3d |-> st.f3,
                       v2d |-> DeclaredFlags(V2, "var_cov"),
                       v3d |-> DeclaredFlags(V3, "var_cov")] >>]
      copy(b2, b3) == result(b2, b3, loop_vars(udata, "LOAD_VARS", b2, b3))
  IN copy(a2, a3)

\* The record load_vars leaves: the registry, the layout and the visits of the
\* traversal, and (history) the registry after each of its three steps.
load_vars(udata, f2, f3, V2, V3) ==
  LET \* Make sure data is allocated
      a2 == [i \in 1..Len(f2) |-> [f2[i] EXCEPT !.var.data = allocate(@, Pts2(mesh))]]
      a3 == [i \in 1..Len(f3) |->
               [f3[i] EXCEPT !.var.data = allocate(@, Pts3(mesh)),
                             !.var.location = f3[i].location]]
      result(b2, b3, st) ==
        [f2d |-> st.f2, f3d |-> st.f3,
         \* Mark each vector as either co- or contra-variant
         v2d |-> DeclaredFlags(V2, "var_cov"), v3d |-> DeclaredFlags(V3, "var_cov"),
         lay |-> st.lay, vis |-> st.vis,
         trace |-> << [step |-> "allocate", f2d |-> b2, f3d |-> b3, v2d |-> V2, v3d |-> V3],
                      [step |-> "loop_vars", f2d |-> st.f2, f3d |-> st.f3,
                       v2d |-> V2, v3d |-> V3],
                      [step |-> "covariant", f2d |-> st.f2, f3d |-> st.f3,
                       v2d |-> DeclaredFlags(V2, "var_cov"),
                       v3d |-> DeclaredFlags(V3, "var_cov")] >>]
      copy(b2, b3) == result(b2, b3, loop_vars(udata, "LOAD_VARS", b2, b3))
  IN copy(a2, a3)

\* save_vars with the basis conversion made before the test for unallocated data
save_vars_convertfirst(udata, f2, f3, V2, V3) ==
  LET c2 == ToDeclaredBasis(f2, V2, 1, "var", "var_cov")
      c3 == ToDeclaredBasis(f3, V3, 1, "var", "var_cov")
      result(st) ==
        [ret |-> 0, udata |-> st.udata, f2d |-> st.f2, f3d |-> st.f3,
         v2d |-> DeclaredFlags(V2, "var_cov"), v3d |-> DeclaredFlags(V3, "var_cov"),
         lay |-> st.lay, vis |-> st.vis, ran |-> TRUE]
  IN IF \/ \E i \in 1..Len(f2) : f2[i].var.data = NULL
        \/ \E i \in 1..Len(f3) : f3[i].var.data = NULL
       THEN [ret |-> 1, udata |-> udata, f2d |-> c2, f3d |-> c3,
             v2d |-> DeclaredFlags(V2, "var_cov"), v3d |-> DeclaredFlags(V3, "var_cov"),
             lay |-> <<>>, vis |-> <<>>, ran |-> FALSE]
       ELSE result(loop_vars(udata, "SAVE_VARS", c2, c3))

save_vars(udata, f2, f3, V2, V3) ==
  IF \/ \E i \in 1..Len(f2) : f2[i].var.data = NULL
     \/ \E i \in 1..Len(f3) : f3[i].var.data = NULL
    THEN [ret |-> 1, udata |-> udata, f2d |-> f2, f3d |-> f3, v2d |-> V2, v3d |-> V3,
          lay |-> <<>>, vis |-> <<>>, ran |-> FALSE]
    ELSE LET \* Make sure vectors in correct basis
             c2 == ToDeclaredBasis(f2, V2, 1, "var", "var_cov")
             c3 == ToDeclaredBasis(f3, V3, 1, "var", "var_cov")
             result(st) ==
               [ret |-> 0, udata |-> st.udata, f2d |-> st.f2, f3d |-> st.f3,
                v2d |-> DeclaredFlags(V2, "var_cov"), v3d |-> DeclaredFlags(V3, "var_cov"),
                lay |-> st.lay, vis |-> st.vis, ran |-> TRUE]
         IN result(loop_vars(udata, "SAVE_VARS", c2, c3))

\* save_derivs without the interpolation onto the declared cell location
save_derivs_nointerp(dudata, f2, f3, V2, V3) ==
  LET \* Make sure 3D fields are at the correct cell location
      i3(c) == [i \in 1..Len(c) |->
                  c[i]]
      result(c2, c3, n3, st) ==
        [udata |-> st.udata, f2d |-> st.f2, f3d |-> st.f3,
         v2d |-> DeclaredFlags(V2, "F_cov"), v3d |-> DeclaredFlags(V3, "F_cov"),
         lay |-> st.lay, vis |-> st.vis,
         trace |-> << [step |-> "basis", f2d |-> c2, f3d |-> c3, dudata |-> dudata],
                      [step |-> "interp_to", f2d |-> c2, f3d |-> n3, dudata |-> dudata],
                      [step |-> "loop_vars", f2d |-> st.f2, f3d |-> st.f3,
                       dudata |-> st.udata] >>]
      copy(c2, c3, n3) == result(c2, c3, n3, loop_vars(dudata, "SAVE_DERIVS", c2, n3))
      located(c2, c3) == copy(c2, c3, i3(c3))
      \* Make sure vectors in correct basis
  IN located(ToDeclaredBasis(f2, V2, 1, "F_var", "F_cov"),
             ToDeclaredBasis(f3, V3, 1, "F_var", "F_cov"))

\* The record save_derivs leaves: the buffer, the registry, the layout and the visits
\* of the traversal, and (history) the registry and the buffer after each of its steps.
save_derivs(dudata, f2, f3, V2, V3) ==
  LET \* Make sure 3D fields are at the correct cell location
      i3(c) == [i \in 1..Len(c) |->
                  IF c[i].location # c[i].F_var.location
                    THEN [c[i] EXCEPT !.F_var = interp_to(c[i].F_var, c[i].location)]
                    ELSE c[i]]
      result(c2, c3, n3, st) ==
        [udata |-> st.udata, f2d |-> st.f2, f3d |-> st.f3,
         v2d |-> DeclaredFlags(V2, "F_cov"), v3d |-> DeclaredFlags(V3, "F_cov"),
         lay |-> st.lay, vis |-> st.vis,
         trace |-> << [step |-> "basis", f2d |-> c2, f3d |-> c3, dudata |-> dudata],
                      [step |-> "interp_to", f2d |-> c2, f3d |-> n3, dudata |-> dudata],
                      [step |-> "loop_vars", f2d |-> st.f2, f3d |-> st.f3,
                       dudata |-> st.udata] >>]
      copy(c2, c3, n3) == result(c2, c3, n3, loop_vars(dudata, "SAVE_DERIVS", c2, n3))
      located(c2, c3) == copy(c2, c3, i3(c3))
      \* Make sure vectors in correct basis
  IN located(ToDeclaredBasis(f2, V2, 1, "F_var", "F_cov"),
             ToDeclaredBasis(f3, V3, 1, "F_var", "F_cov"))

(***************************************************************************)
(* The variable registry as the user code leaves it before init            *)
(* (Solver::add): scalar fields, and vectors whose three components are    *)
(* registered as fields of their own.                                      *)
(***************************************************************************)
Val2(i, q) == 1000 * i + 100 * q[1] + 10 * q[2]

Val3(i, q) == 20000 + 5000 * i + 100 * q[1] + 10 * q[2] + q[3]

DeclLoc(i) == IF i % 2 = 1 THEN "CELL_CENTRE" ELSE "CELL_YLOW"

Str2(m, i) ==
  [var |-> [data |-> [q \in Pts2(m) |-> Val2(i, q)]], F_var |-> [data |-> NULL]]

Str3(m, i) ==
  [var |-> [data |-> [q \in Pts3(m) |-> Val3(i, q)], location |-> DeclLoc(i)],
   F_var |-> [data |-> NULL, location |-> "CELL_CENTRE"],
   location |-> DeclLoc(i)]

VecStr(decl, cur) == [c |-> <<1, 2, 3>>, covariant |-> decl, var_cov |-> cur, F_cov |-> decl]

\* The registry of n2 two-dimensional and n3 three-dimensional scalar variables
ScalarReg(m, n2, n3) ==
  [f2d |-> [i \in 1..n2 |-> Str2(m, i)], f3d |-> [i \in 1..n3 |-> Str3(m, i)],
   v2d |-> <<>>, v3d |-> <<>>]

ScalarRegs(m) == { ScalarReg(m, n2, n3) : n2 \in 1..MaxScalars, n3 \in 1..MaxScalars }

\* Registries holding one vector, 3D or 2D, declared in basis decl and currently held
\* in basis cur, next to one scalar of the other dimensionality
VectorRegs(m) ==
  UNION { { [ScalarReg(m, 1, 3) EXCEPT !.v3d = <<VecStr(decl, cur)>>],
            [ScalarReg(m, 3, 1) EXCEPT !.v2d = <<VecStr(decl, cur)>>] } :
          decl \in BOOLEAN, cur \in BOOLEAN }

\* Registries in which one variable has no backing storage yet
UnallocRegs(m) ==
  { [ScalarReg(m, 1, 1) EXCEPT !.f2d[1].var.data = NULL],
    [ScalarReg(m, 1, 1) EXCEPT !.f3d[1].var.data = NULL],
    [ScalarReg(m, 1, 3) EXCEPT !.f2d[1].var.data = NULL, !.v3d = <<VecStr(TRUE, FALSE)>>],
    [ScalarReg(m, 3, 2) EXCEPT !.f3d[2].var.data = NULL, !.v2d = <<VecStr(FALSE, TRUE)>>] }

(***************************************************************************)
(* The environment of one run.                                             *)
(***************************************************************************)
\* Values an uninitialised member can hold when it is read
GarbageTimes == {-1, 0, 99}

Options ==
  [J_load : BOOLEAN, J_slowfd : BOOLEAN, J_write : BOOLEAN, adams_moulton : BOOLEAN,
   rank : {0, 1}]

DefaultOptions ==
  [J_load |-> FALSE, J_slowfd |-> FALSE, J_write |-> FALSE, adams_moulton |-> FALSE,
   rank |-> 0]

\* opt: the options; fault: the index of the step of init whose PETSc call fails
\* (0: none); marks: whether the generic Solver::init marks the solver initialised;
\* NOUT, TIMESTEP: the arguments of init; mxstep: the option of that name (steps
\* between outputs); evals: the residual evaluations the integrator makes at most
\* in the explored run; flags: the statuses the user's residual function returns; trials: how many trial states other than u it passes to
\* rhs; Floc, Fcov: the cell location and the basis the user's residual function
\* leaves the 3D time-derivatives and the vector time-derivatives in; dts: the
\* lengths the integrator chooses for its sub-steps; walls: the wall-clock ticks one
\* residual evaluation can take.
EnvOf(opt, fault, marks, NOUT, TIMESTEP, mxstep, evals, flags, trials, Floc, Fcov, dts, walls) ==
  [opt |-> opt, fault |-> fault, marks |-> marks, NOUT |-> NOUT, TIMESTEP |-> TIMESTEP,
   mxstep |-> mxstep, evals |-> evals, flags |-> flags, trials |-> trials,
   Floc |-> Floc, Fcov |-> Fcov, dts |-> dts, walls |-> walls]

\* The runs explored from a set of environments, meshes and registries
Scenarios(envs, meshes, regs) ==
  { [env |-> e, mesh |-> m, reg |-> r] : e \in envs, m \in meshes, r \in regs }

\* The state after construction of the solver and registration of the variables.
\* next_time is a member nothing has set yet; it is read before run sets it only by
\* the residual evaluations of the slow Jacobian probe.
(***************************************************************************)
(* FieldData: the boundary operators of a field.                           *)
(***************************************************************************)
FieldIds == 1..MaxFields

\* FieldData::FieldData(): boundaryIsCopy(false), boundaryIsSet(true), empty lists
FieldData ==
  [alive |-> TRUE, bndry_op |-> <<>>, bndry_op_par |-> <<>>,
   boundaryIsCopy |-> FALSE, boundaryIsSet |-> TRUE]

\* Every FieldData object constructed, no boundary operator allocated yet.  heap[o] is
\* the operator with address o: the field whose setBoundary allocated it, its region,
\* whether it is a parallel operator, and the fields whose destructor deleted it.
Constructed == [obj |-> [f \in FieldIds |-> FieldData], heap |-> <<>>]

InitWith(scenarios) ==
  /\ fields = Constructed
  /\ \E sc \in scenarios : /\ env = sc.env
                           /\ mesh = sc.mesh
                           /\ f2d = sc.reg.f2d
                           /\ f3d = sc.reg.f3d
                           /\ v2d = sc.reg.v2d
                           /\ v3d = sc.reg.v3d
                           /\ assigned = sc.reg
  /\ next_time \in (IF env.opt.J_slowfd THEN GarbageTimes ELSE {0})
  /\ errlog = <<>>
  /\ runlog = [tsstep |-> 0, ret |-> NULL]
  /\ u = NULL
  /\ du = NULL
  /\ codec = [o \in Ops |-> [ran |-> FALSE, lay |-> <<>>, vis |-> <<>>]]
  /\ phase = "constructed"
  /\ initpc = 0
  /\ done = <<>>
  /\ res = [u |-> "none", J |-> "none", matfdcoloring |-> "none", ts |-> "none"]
  /\ ts = [rhs |-> "none", jac |-> "none", prestep |-> "none",
           time |-> 0, dt |-> 0, steps |-> 0, max_steps |-> 0, max_time |-> 0,
           status |-> 0]
  /\ nout = 0
  /\ tstep = 0
  /\ simtime = 0
  /\ outputnext = FALSE
  /\ iteration = 0
  /\ rhs_ncalls = 0
  /\ rhs_wtime = 0
  /\ initialised = FALSE
  /\ nrhs = 0
  /\ last = [t |-> 0, flag |-> 0, w |-> 0, ret |-> 0, trig |-> FALSE, in_run |-> FALSE, trace |-> <<>>,
             mono |-> TRUE, udata |-> NULL, before |-> <<>>]
  /\ outlog = <<>>

(***************************************************************************)
(* PetscSolver::init.  The fallible calls of init in program order; each   *)
(* is followed by CHKERRQ (or an explicit test) that returns from init.    *)
(***************************************************************************)
\* InitSteps with the slow finite-difference option tested before the load file
InitSteps_slowfirst(opt) ==
  << "MPI_Allreduce",
     "VecCreate", "VecSetSizes", "VecSetFromOptions",
     "VecGetArray", "save_vars", "VecRestoreArray",
     "MPI_Comm_rank", "TSCreate", "TSSetProblemType", "TSSetType",
     "TSSetApplicationContext", "TSSetRHSFunction",
     "TSSundialsSetTolerance",
     IF opt.adams_moulton THEN "TSSundialsSetType:ADAMS" ELSE "TSSundialsSetType:BDF",
     "TSSetInitialTimeStep", "TSSetDuration", "TSSetSolution",
     "PetscOptionsGetString:J_load" >>
  \o (IF opt.J_load /\ ~opt.J_slowfd
        THEN (IF opt.rank = 0 THEN << "PetscPrintf:load" >> ELSE << >>)
             \o << "PetscViewerBinaryOpen:read", "MatLoad", "PetscViewerDestroy:read",
                   "TSSetRHSJacobian:load" >>
        ELSE << "MatCreate", "MatSetSizes", "MatSetFromOptions",
                "MatSeqAIJSetPreallocation", "MatMPIAIJSetPreallocation",
                "TSSetRHSJacobian:create", "PetscOptionsHasName:J_slowfd" >>
             \o (IF opt.J_slowfd
                   THEN << "PetscPrintf:slowfd", "TSDefaultComputeJacobian" >>
                   ELSE << "PetscPrintf:pattern" >>))
  \o << "PetscOptionsHasName:J_write" >>
  \o (IF opt.J_write
        THEN << "PetscPrintf:write", "PetscViewerBinaryOpen:write", "MatView",
                "PetscViewerDestroy:write" >>
        ELSE << >>)
  \o << "MatGetColoring", "MatFDColoringCreate", "ISColoringDestroy",
        "MatFDColoringSetFunction", "MatFDColoringSetFromOptions",
        "TSSetRHSJacobian:color", "TSSetFromOptions" >>

InitSteps(opt) ==
  << "MPI_Allreduce",
     "VecCreate", "VecSetSizes", "VecSetFromOptions",
     "VecGetArray", "save_vars", "VecRestoreArray",
     "MPI_Comm_rank", "TSCreate", "TSSetProblemType", "TSSetType",
     "TSSetApplicationContext", "TSSetRHSFunction",
     "TSSundialsSetTolerance",
     IF opt.adams_moulton THEN "TSSundialsSetType:ADAMS" ELSE "TSSundialsSetType:BDF",
     "TSSetInitialTimeStep", "TSSetDuration", "TSSetSolution",
     "PetscOptionsGetString:J_load" >>
  \o (IF opt.J_load
        THEN (IF opt.rank = 0 THEN << "PetscPrintf:load" >> ELSE << >>)
             \o << "PetscViewerBinaryOpen:read", "MatLoad", "PetscViewerDestroy:read",
                   "TSSetRHSJacobian:load" >>
        ELSE << "MatCreate", "MatSetSizes", "MatSetFromOptions",
                "MatSeqAIJSetPreallocation", "MatMPIAIJSetPreallocation",
                "TSSetRHSJacobian:create", "PetscOptionsHasName:J_slowfd" >>
             \o (IF opt.J_slowfd
                   THEN << "PetscPrintf:slowfd", "TSDefaultComputeJacobian" >>
                   ELSE << "PetscPrintf:pattern" >>))
  \o << "PetscOptionsHasName:J_write" >>
  \o (IF opt.J_write
        THEN << "PetscPrintf:write", "PetscViewerBinaryOpen:write", "MatView",
                "PetscViewerDestroy:write" >>
        ELSE << >>)
  \o << "MatGetColoring", "MatFDColoringCreate", "ISColoringDestroy",
        "MatFDColoringSetFunction", "MatFDColoringSetFromOptions",
        "TSSetRHSJacobian:color", "TSSetFromOptions" >>

\* Solver::getLocalN: the number of entries the traversal of the local domain covers
getLocalN ==
  LET MYSUB == mesh.yend - mesh.ystart + 1
      MXSUB == mesh.xend - mesh.xstart + 1
      npts == (IF mesh.firstX THEN mesh.xstart * MYSUB ELSE 0)
              + Len(mesh.lowerY) * mesh.ystart
              + MXSUB * MYSUB
              + Len(mesh.upperY) * (mesh.ngy - mesh.yend - 1)
              + (IF mesh.lastX THEN (mesh.ngx - mesh.xend - 1) * MYSUB ELSE 0)
  IN npts * (n2Dvars + n3Dvars * (mesh.ngz - 1))

\* bout_error(msg): the error is reported and control returns to the caller
bout_error(D, msg) == [D EXCEPT !.errlog = Append(@, msg)]

\* The effect of one successful step of init on D = [res, ts, u, f2d, f3d, v2d, v3d,
\* codec, status]; status "run" while init goes on, "probing" when it has entered
\* TSDefaultComputeJacobian, "failed" when it returns nonzero.
StepEffect(name, D) ==
  CASE name = "VecCreate" -> [D EXCEPT !.res.u = "live"]
    [] name = "VecSetSizes" -> [D EXCEPT !.u = [j \in 1..getLocalN |-> Garbage]]
    [] name = "save_vars" ->
         LET saved(S) ==
               IF S.ret # 0
                 THEN [bout_error([D EXCEPT !.u = S.udata, !.f2d = S.f2d, !.f3d = S.f3d,
                                             !.v2d = S.v2d, !.v3d = S.v3d],
                                  "Initial variable value not set") EXCEPT
                         !.status = "failed"]
                 ELSE [D EXCEPT !.u = S.udata, !.f2d = S.f2d, !.f3d = S.f3d,
                                !.v2d = S.v2d, !.v3d = S.v3d,
                                !.codec["SAVE_VARS"] =
                                   [ran |-> TRUE, lay |-> S.lay, vis |-> S.vis]]
         IN saved(save_vars(D.u, D.f2d, D.f3d, D.v2d, D.v3d))
    [] name = "TSCreate" -> [D EXCEPT !.res.ts = "live"]
    [] name = "TSSetRHSFunction" -> [D EXCEPT !.ts.rhs = "solver_f"]
    [] name = "TSSetInitialTimeStep" ->
         [D EXCEPT !.ts.time = simtime, !.ts.dt = env.TIMESTEP]
    [] name = "TSSetDuration" ->
         [D EXCEPT !.ts.max_steps = env.mxstep * env.NOUT,
                   !.ts.max_time = env.NOUT * env.TIMESTEP]
    [] name \in {"MatLoad", "MatCreate"} -> [D EXCEPT !.res.J = "live"]
    [] name \in {"TSSetRHSJacobian:load", "TSSetRHSJacobian:create"} ->
         [D EXCEPT !.ts.jac = "TSDefaultComputeJacobian"]
    [] name = "TSDefaultComputeJacobian" -> [D EXCEPT !.status = "probing"]
    [] name = "MatFDColoringCreate" -> [D EXCEPT !.res.matfdcoloring = "live"]
    [] name = "TSSetRHSJacobian:color" ->
         [D EXCEPT !.ts.jac = "TSDefaultComputeJacobianColor"]
    [] OTHER -> D

\* Exec with the status of MPI_Allreduce, the first step, left untested
RECURSIVE Exec_unchecked(_, _, _)
Exec_unchecked(steps, k, D) ==
  IF k > Len(steps) THEN [D EXCEPT !.status = "ready", !.pc = k]
  ELSE IF env.fault = k /\ k # 1 /\ steps[k] # "save_vars"
         THEN [D EXCEPT !.status = "failed", !.pc = k]
  ELSE LET after(E) ==
             CASE E.status = "run" ->
                    Exec_unchecked(steps, k + 1,
                                   [E EXCEPT !.done = Append(@, steps[k]), !.pc = k + 1])
               [] E.status = "failed" -> [E EXCEPT !.pc = k]
               [] OTHER -> [E EXCEPT !.done = Append(@, steps[k]), !.pc = k + 1]
       IN after(StepEffect(steps[k], D))

\* init from its k-th step on: until a call fails, the Jacobian probe is entered, or
\* the last step is done (return(0)).
RECURSIVE Exec(_, _, _)
Exec(steps, k, D) ==
  IF k > Len(steps) THEN [D EXCEPT !.status = "ready", !.pc = k]
  ELSE IF env.fault = k /\ steps[k] # "save_vars"
         THEN [D EXCEPT !.status = "failed", !.pc = k]
  ELSE LET after(E) ==
             CASE E.status = "run" ->
                    Exec(steps, k + 1, [E EXCEPT !.done = Append(@, steps[k]), !.pc = k + 1])
               [] E.status = "failed" -> [E EXCEPT !.pc = k]
               [] OTHER -> [E EXCEPT !.done = Append(@, steps[k]), !.pc = k + 1]
       IN after(StepEffect(steps[k], D))

(***************************************************************************)
(* PetscSolver::init as actions: up to its return or to the Jacobian probe *)
(* (TSDefaultComputeJacobian calls the residual callback), and from the    *)
(* return of the probe on.                                                 *)
(***************************************************************************)
InitState ==
  [res |-> res, ts |-> ts, u |-> u, f2d |-> f2d, f3d |-> f3d, v2d |-> v2d, v3d |-> v3d,
   codec |-> codec, done |-> done, errlog |-> errlog, status |-> "run", pc |-> 0]

InitGoes(R) ==
  /\ res' = R.res
  /\ ts' = R.ts
  /\ u' = R.u
  /\ f2d' = R.f2d
  /\ f3d' = R.f3d
  /\ v2d' = R.v2d
  /\ v3d' = R.v3d
  /\ codec' = R.codec
  /\ done' = R.done
  /\ errlog' = R.errlog
  /\ phase' = R.status
  /\ initpc' = R.pc

init ==
  /\ phase = "constructed"
  \* Save NOUT and TIMESTEP for use later
  /\ nout' = env.NOUT
  /\ tstep' = env.TIMESTEP
  \* Call the generic initialisation first
  /\ initialised' = (initialised \/ env.marks)
  /\ \E R \in {Exec(InitSteps(env.opt), 1, InitState)} : InitGoes(R)
  /\ UNCHANGED <<mesh, coords, deriv, fields, env, assigned, runlog, du, simtime, next_time, outputnext, iteration, rhs_ncalls,
                 rhs_wtime, nrhs, last, outlog>>

init_resume ==
  /\ phase = "probing"
  /\ nrhs >= 1
  /\ \E R \in {Exec(InitSteps(env.opt), initpc, InitState)} : InitGoes(R)
  /\ UNCHANGED <<mesh, coords, deriv, fields, env, assigned, runlog, du, nout, tstep, initialised, simtime, next_time, outputnext,
                 iteration, rhs_ncalls, rhs_wtime, nrhs, last, outlog>>

(***************************************************************************)
(* PetscSolver::run.                                                       *)
(***************************************************************************)
run ==
  /\ phase = "ready"
  \* Set when the next call to monitor is desired
  /\ next_time' = simtime + tstep
  /\ outputnext' = FALSE
  \* TSStep(ts,&steps,&ftime) is entered
  /\ phase' = "stepping"
  /\ runlog' = [runlog EXCEPT !.tsstep = @ + 1]
  /\ last' = [last EXCEPT !.mono = TRUE, !.t = simtime]
  /\ UNCHANGED <<mesh, coords, deriv, fields, env, assigned, errlog, f2d, f3d, v2d, v3d, u, du, codec, initpc, done, res, ts, nout,
                 tstep, simtime, iteration, rhs_ncalls, rhs_wtime, initialised, nrhs, outlog>>

\* run_return with run returning 0 whatever TSStep returned
run_return_zero ==
  /\ phase = "stepping"
  /\ ts.time >= ts.max_time \/ ts.steps >= ts.max_steps
  /\ phase' = "ran"
  /\ \E status \in {0, 1} :
       /\ ts' = [ts EXCEPT !.status = status]
       /\ runlog' = [runlog EXCEPT !.ret = [status |-> 0]]
  /\ UNCHANGED <<mesh, coords, deriv, fields, env, assigned, errlog, f2d, f3d, v2d, v3d, u, du, codec, initpc,
                 done, res, nout, tstep, simtime, next_time, outputnext, iteration,
                 rhs_ncalls, rhs_wtime, initialised, nrhs, last, outlog>>

\* TSStep ends, with a status, when the final time or the step limit is reached, and
\* run returns
run_return ==
  /\ phase = "stepping"
  /\ ts.time >= ts.max_time \/ ts.steps >= ts.max_steps
  /\ phase' = "ran"
  \* PetscFunctionReturn(TSStep(...)): the status of TSStep is what run returns; the
  \* locals steps and ftime TSStep filled end with the call
  /\ \E status \in {0, 1} :
       /\ ts' = [ts EXCEPT !.status = status]
       /\ runlog' = [runlog EXCEPT !.ret = [status |-> ts'.status]]
  /\ UNCHANGED <<mesh, coords, deriv, fields, env, assigned, errlog, f2d, f3d, v2d, v3d, u, du, codec, initpc, done, res, nout,
                 tstep, simtime, next_time, outputnext, iteration, rhs_ncalls, rhs_wtime,
                 initialised, nrhs, last, outlog>>

(***************************************************************************)
(* PetscSolver::rhs, called through solver_f.                              *)
(***************************************************************************)
\* Solver::run_rhs: the user's residual function fills every time-derivative from the
\* loaded state and returns flag; the per-interval counters are advanced.
run_rhs(t, L, flag, w) ==
  [f2d |-> [i \in 1..Len(L.f2d) |->
              [L.f2d[i] EXCEPT !.F_var.data =
                 [q \in DOMAIN L.f2d[i].var.data |-> L.f2d[i].var.data[q] + t + 1]]],
   f3d |-> [i \in 1..Len(L.f3d) |->
              [L.f3d[i] EXCEPT !.F_var =
                 [data |-> [q \in DOMAIN L.f3d[i].var.data |-> L.f3d[i].var.data[q] + t + 1],
                  location |-> env.Floc]]],
   v2d |-> [k \in 1..Len(L.v2d) |-> [L.v2d[k] EXCEPT !.F_cov = env.Fcov]],
   v3d |-> [k \in 1..Len(L.v3d) |-> [L.v3d[k] EXCEPT !.F_cov = env.Fcov]],
   flag |-> flag, rhs_ncalls |-> rhs_ncalls + 1, rhs_wtime |-> rhs_wtime + w]

\* rhs with the residual function called with the recorded simulation time, not with t
rhs_stale_time(t, udata, dudata, flag, w) ==
  LET \* Decide whether to call the monitor
      trig == t >= next_time
      end(L, R, S) ==
        [f2d |-> S.f2d, f3d |-> S.f3d, v2d |-> S.v2d, v3d |-> S.v3d, dudata |-> S.udata,
         load |-> [ran |-> TRUE, lay |-> L.lay, vis |-> L.vis],
         save |-> [ran |-> TRUE, lay |-> S.lay, vis |-> S.vis],
         simtime |-> t,
         trig |-> trig,
         iteration |-> IF trig THEN iteration + 1 ELSE iteration,
         rhs_ncalls |-> IF trig THEN 0 ELSE R.rhs_ncalls,
         rhs_wtime |-> IF trig THEN 0 ELSE R.rhs_wtime,
         outputnext |-> IF trig THEN FALSE ELSE outputnext,
         next_time |-> IF trig THEN t + tstep ELSE next_time,
         ret |-> 0,
         \* history: the steps made, what each read and wrote, and the recorded
         \* simulation time when it was made
         trace |-> << [step |-> "load_vars", from |-> udata, simtime |-> simtime],
                      [step |-> "run_rhs", t |-> t, simtime |-> simtime,
                       state |-> [f2d |-> L.f2d, f3d |-> L.f3d, v2d |-> L.v2d, v3d |-> L.v3d]],
                      [step |-> "save_derivs", simtime |-> simtime, into |-> S.udata,
                       derivs |-> [f2d |-> R.f2d, f3d |-> R.f3d, v2d |-> R.v2d, v3d |-> R.v3d]],
                      [step |-> "simtime = t", simtime |-> t],
                      [step |-> "t >= next_time", simtime |-> t, taken |-> trig] >>]
      \* Save derivatives to PETSc
      derivs(L, R) == end(L, R, save_derivs(dudata, R.f2d, R.f3d, R.v2d, R.v3d))
      \* Call RHS function
      residual(L) == derivs(L, run_rhs(simtime, L, flag, w))
      \* Load state from PETSc
  IN residual(load_vars(udata, f2d, f3d, v2d, v3d))

\* The test of line 312 made with > in place of >=
OutputDue_strict(t, nt) == t > nt

\* The test of line 312 made with == in place of >=
OutputDue_equality(t, nt) == t = nt

\* if(t >= next_time): whether the evaluation at time t is to count an output
OutputDue(t, nt) == t >= nt

\* The members rhs leaves behind, given time t, the input array udata, the output
\* array dudata, and what the residual function returns (flag) and costs (w).
rhs(t, udata, dudata, flag, w) ==
  LET \* Decide whether to call the monitor
      trig == OutputDue(t, next_time)
      end(L, R, S) ==
        [f2d |-> S.f2d, f3d |-> S.f3d, v2d |-> S.v2d, v3d |-> S.v3d, dudata |-> S.udata,
         load |-> [ran |-> TRUE, lay |-> L.lay, vis |-> L.vis],
         save |-> [ran |-> TRUE, lay |-> S.lay, vis |-> S.vis],
         simtime |-> t,
         trig |-> trig,
         iteration |-> IF trig THEN iteration + 1 ELSE iteration,
         rhs_ncalls |-> IF trig THEN 0 ELSE R.rhs_ncalls,
         rhs_wtime |-> IF trig THEN 0 ELSE R.rhs_wtime,
         outputnext |-> IF trig THEN FALSE ELSE outputnext,
         next_time |-> IF trig THEN t + tstep ELSE next_time,
         ret |-> 0,
         \* history: the steps made, what each read and wrote, and the recorded
         \* simulation time when it was made
         trace |-> << [step |-> "load_vars", from |-> udata, simtime |-> simtime],
                      [step |-> "run_rhs", t |-> t, simtime |-> simtime,
                       state |-> [f2d |-> L.f2d, f3d |-> L.f3d, v2d |-> L.v2d, v3d |-> L.v3d]],
                      [step |-> "save_derivs", simtime |-> simtime, into |-> S.udata,
                       derivs |-> [f2d |-> R.f2d, f3d |-> R.f3d, v2d |-> R.v2d, v3d |-> R.v3d]],
                      [step |-> "simtime = t", simtime |-> t],
                      [step |-> "t >= next_time", simtime |-> t, taken |-> trig] >>]
      \* Save derivatives to PETSc
      derivs(L, R) == end(L, R, save_derivs(dudata, R.f2d, R.f3d, R.v2d, R.v3d))
      \* Call RHS function
      residual(L) == derivs(L, run_rhs(t, L, flag, w))
      \* Load state from PETSc
  IN residual(load_vars(udata, f2d, f3d, v2d, v3d))

\* The trial state the integrator passes: u itself (k = 0) or u displaced
Trial(k) == [j \in 1..Len(u) |-> u[j] + 3000000 * k]

solver_f ==
  /\ phase \in {"probing", "stepping"}
  /\ ts.rhs = "solver_f"
  /\ nrhs < env.evals
  \* inside TSStep the function is evaluated during a sub-step still to be completed
  /\ phase = "stepping" => (ts.steps < ts.max_steps /\ ts.time < ts.max_time)
  /\ \E t \in (IF phase = "probing" THEN {simtime} ELSE ts.time..(ts.time + ts.dt)),
        flag \in env.flags, k \in 0..env.trials, w \in env.walls :
       \E N \in {rhs(t, Trial(k), [j \in 1..Len(u) |-> Garbage], flag, w)} :
          /\ f2d' = N.f2d
          /\ f3d' = N.f3d
          /\ v2d' = N.v2d
          /\ v3d' = N.v3d
          /\ du' = N.dudata
          /\ codec' = [codec EXCEPT !["LOAD_VARS"] = N.load, !["SAVE_DERIVS"] = N.save]
          /\ simtime' = N.simtime
          /\ iteration' = N.iteration
          /\ rhs_ncalls' = N.rhs_ncalls
          /\ rhs_wtime' = N.rhs_wtime
          /\ outputnext' = N.outputnext
          /\ next_time' = N.next_time
          /\ nrhs' = nrhs + 1
          /\ last' = [t |-> t, flag |-> flag, w |-> w, ret |-> N.ret, trig |-> N.trig,
                      trace |-> N.trace,
                      in_run |-> phase = "stepping",
                      mono |-> last.mono /\ t >= last.t,
                      udata |-> Trial(k),
                      before |-> <<simtime, iteration, rhs_ncalls, rhs_wtime, next_time>>]
          /\ outlog' = IF N.trig
                         THEN Append(outlog, [t |-> t, prev |-> next_time,
                                              next |-> N.next_time,
                                              in_run |-> phase = "stepping",
                                              mono |-> last.mono /\ t >= last.t])
                         ELSE outlog
  /\ UNCHANGED <<mesh, coords, deriv, fields, env, assigned, runlog, errlog, u, phase, initpc, done, res, ts, nout, tstep, initialised>>

(***************************************************************************)
(* The integrator's internal sub-step, with the pre-step hook PreStep.     *)
(***************************************************************************)
\* PreStep(ts): dt is the local copy TSGetTimeStep filled; the integrator's own step
\* is not written back.
PreStep(tsv, nt) ==
  LET t == tsv.time
      dt == tsv.dt
      past == (t + dt) >= nt
      dt_local == IF past THEN nt - t ELSE dt
  IN [ts |-> tsv, dt |-> dt_local, outputnext |-> past]

\* One internal sub-step of TSStep: the hook registered with TSSetPreStep, if any, is
\* called first; the step of length ts.dt is taken and the next step length chosen.
TSSubStep ==
  /\ phase = "stepping"
  /\ ts.steps < ts.max_steps
  /\ ts.time < ts.max_time
  /\ LET hooked == ts.prestep = "PreStep"
         P == PreStep(ts, next_time)
         T == IF hooked THEN P.ts ELSE ts
     IN /\ outputnext' = IF hooked THEN P.outputnext ELSE outputnext
        /\ \E ndt \in env.dts :
             ts' = [T EXCEPT !.time = T.time + T.dt, !.steps = @ + 1, !.dt = ndt]
  /\ UNCHANGED <<mesh, coords, deriv, fields, env, assigned, runlog, errlog, f2d, f3d, v2d, v3d, u, du, codec, phase, initpc, done, res,
                 nout, tstep, simtime, next_time, iteration, rhs_ncalls, rhs_wtime,
                 initialised, nrhs, last, outlog>>

(***************************************************************************)
(* PetscSolver::~PetscSolver.                                              *)
(***************************************************************************)
\* VecDestroy / TSDestroy of an object in state s
Destroy(s) == IF s = "live" THEN "freed" ELSE "bad"

\* if (J){MatDestroy(J);}: J is a member the constructor leaves unset, so the test
\* of a J that was never created can go either way (taken).
DestroyIfSet(s, taken) ==
  CASE s = "live" -> "freed"
    [] s = "none" -> IF taken THEN "bad" ELSE "none"
    [] OTHER -> "bad"

destructor ==
  /\ phase \in {"constructed", "ready", "failed", "ran"}
  /\ phase' = "destroyed"
  /\ IF initialised
       THEN \E tJ \in BOOLEAN, tC \in BOOLEAN :
              res' = [u |-> Destroy(res.u),
                      J |-> DestroyIfSet(res.J, tJ),
                      matfdcoloring |-> DestroyIfSet(res.matfdcoloring, tC),
                      ts |-> Destroy(res.ts)]
       ELSE res' = res
  /\ initialised' = FALSE
  /\ UNCHANGED <<mesh, coords, deriv, fields, env, assigned, runlog, errlog, f2d, f3d, v2d, v3d, u, du, codec, initpc, done, ts, nout,
                 tstep, simtime, next_time, outputnext, iteration, rhs_ncalls, rhs_wtime,
                 nrhs, last, outlog>>

(***************************************************************************)
(* Differential operators (src/sys/derivs.cxx).  A field is a record       *)
(* [location, data]; data maps the points of the local mesh to integers.   *)
(* An operator returns [fld, log]: the field the call returns and the      *)
(* calls of mesh primitives it made, in program order.                     *)
(***************************************************************************)
OutLocs == Locations \cup {"CELL_DEFAULT"}

Methods == {"DIFF_DEFAULT", "DIFF_C2", "DIFF_C4"}

\* The points of a 3D field the operators work on: LocalNz = ngz - 1 toroidal planes
DPts3(m) == (0..(m.ngx - 1)) \X (0..(m.ngy - 1)) \X (0..(m.ngz - 2))

\* The points the mesh primitives compute a result at: the interior in X and Y (the
\* X guard cells too when inc_xbndry is set); the others keep the value zero.
Interior(q, inc_xbndry) ==
  /\ inc_xbndry \/ q[1] \in mesh.xstart..mesh.xend
  /\ q[2] \in mesh.ystart..mesh.yend

\* The point k cells from q along axis (1 = X, 2 = Y, 3 = Z); Z is periodic
Shift(q, axis, k) ==
  IF axis = 3
  THEN [q EXCEPT ![3] = (@ + k + 2 * (mesh.ngz - 1)) % (mesh.ngz - 1)]
  ELSE [q EXCEPT ![axis] = @ + k]

\* The weights, over the offsets -2..2, of the index-space stencil of a derivative
\* of the given order; DIFF_DEFAULT is the library default (second-order central);
\* shifted: the result is wanted at another cell location than the input's.
Stencil(order, method, shifted) ==
  LET m == IF method = "DIFF_DEFAULT" THEN "DIFF_C2" ELSE method
  IN CASE order = 1 /\ m = "DIFF_C2" /\ ~shifted -> <<0, -1, 0, 1, 0>>
       [] order = 1 /\ m = "DIFF_C4" /\ ~shifted -> <<1, -8, 0, 8, -1>>
       [] order = 1 /\ m = "DIFF_C2" /\ shifted -> <<0, -2, 2, 0, 0>>
       [] order = 1 /\ m = "DIFF_C4" /\ shifted -> <<1, -27, 27, -1, 0>>
       [] order = 2 /\ m = "DIFF_C2" /\ ~shifted -> <<0, 1, -2, 1, 0>>
       [] order = 2 /\ m = "DIFF_C4" /\ ~shifted -> <<-1, 16, -30, 16, -1>>
       [] order = 2 /\ m = "DIFF_C2" /\ shifted -> <<1, -1, -1, 1, 0>>
       [] order = 2 /\ m = "DIFF_C4" /\ shifted -> <<3, -5, 1, 1, 0>>
       [] OTHER -> <<1, -4, 6, -4, 1>>

\* An index-space derivative of f along axis: the stencil applied at every computed
\* point, tagged with the requested location (the input's for CELL_DEFAULT)
IndexDeriv(f, axis, order, outloc, method, inc_xbndry) ==
  LET loc == IF outloc = "CELL_DEFAULT" THEN f.location ELSE outloc
      w == Stencil(order, method, loc # f.location)
  IN [location |-> loc,
      data |-> [q \in DOMAIN f.data |->
                 IF Interior(q, inc_xbndry)
                 THEN w[1] * f.data[Shift(q, axis, -2)] + w[2] * f.data[Shift(q, axis, -1)]
                      + w[3] * f.data[q]
                      + w[4] * f.data[Shift(q, axis, 1)] + w[5] * f.data[Shift(q, axis, 2)]
                 ELSE 0]]

\* Mesh::indexDDX, indexDDY, indexDDZ: the index-space first derivatives
indexDDX(f, outloc, method) == IndexDeriv(f, 1, 1, outloc, method, FALSE)

indexDDY(f, outloc, method) == IndexDeriv(f, 2, 1, outloc, method, FALSE)

indexDDZ(f, outloc, method, inc_xbndry) == IndexDeriv(f, 3, 1, outloc, method, inc_xbndry)

\* Mesh::communicate(f): the guard cells of f are overwritten with what the
\* neighbouring processors send (coords.halo); the interior is left alone
communicate(f) ==
  [location |-> f.location,
   data |-> [q \in DOMAIN f.data |->
              IF Interior(q, FALSE) THEN f.data[q] ELSE coords.halo[<<q[1], q[2]>>]]]

\* Field arithmetic, point by point.  g is the data of a Field2D (a metric quantity),
\* read at the (x,y) of the point; the result keeps the location of the field f.
FieldDiv(f, g) ==
  [location |-> f.location,
   data |-> [q \in DOMAIN f.data |-> f.data[q] \div g[<<q[1], q[2]>>]]]

FieldMul(g, f) ==
  [location |-> f.location,
   data |-> [q \in DOMAIN f.data |-> g[<<q[1], q[2]>>] * f.data[q]]]

FieldAdd(f, h) ==
  [location |-> f.location, data |-> [q \in DOMAIN f.data |-> f.data[q] + h.data[q]]]

\* Field / BoutReal
FieldDivReal(f, r) ==
  [location |-> f.location, data |-> [q \in DOMAIN f.data |-> f.data[q] \div r]]

SQ(g) == [q \in DOMAIN g |-> g[q] * g[q]]

\* One call of a mesh primitive, as the operators' logs record it
Event(call, f, outloc, method) ==
  [call |-> call, arg |-> f, outloc |-> outloc, method |-> method]

\* DDZ(const Field3D&, CELL_LOC, DIFF_METHOD, bool inc_xbndry)
DDZ(f, outloc, method, inc_xbndry) ==
  [fld |-> FieldDivReal(indexDDZ(f, outloc, method, inc_xbndry), coords.dz),
   log |-> <<Event("indexDDZ", f, outloc, method)>>]

\* DDX with the torsion term's Z-derivative taken at the input's location
DDX_torsion_at_input(f, outloc, method) ==
  LET result == FieldDiv(indexDDX(f, outloc, method), coords.dx)
      ev == <<Event("indexDDX", f, outloc, method)>>
      dz == DDZ(f, "CELL_DEFAULT", "DIFF_DEFAULT", FALSE)
  IN IF coords.IncIntShear
     THEN [fld |-> FieldAdd(result, FieldMul(coords.IntShiftTorsion, dz.fld)),
           log |-> ev \o dz.log]
     ELSE [fld |-> result, log |-> ev]

\* DDX(const Field3D&, CELL_LOC, DIFF_METHOD); DDZ(f, outloc) takes the default
\* method and no X boundary
DDX(f, outloc, method) ==
  LET result == FieldDiv(indexDDX(f, outloc, method), coords.dx)
      ev == <<Event("indexDDX", f, outloc, method)>>
      dz == DDZ(f, outloc, "DIFF_DEFAULT", FALSE)
  IN IF coords.IncIntShear
     THEN [fld |-> FieldAdd(result, FieldMul(coords.IntShiftTorsion, dz.fld)),
           log |-> ev \o dz.log]
     ELSE [fld |-> result, log |-> ev]

\* DDY(const Field3D&, CELL_LOC, DIFF_METHOD)
DDY(f, outloc, method) ==
  [fld |-> FieldDiv(indexDDY(f, outloc, method), coords.dy),
   log |-> <<Event("indexDDY", f, outloc, method)>>]

\* DDX(const Field2D&) and DDY(const Field2D&): Coordinates::DDX and Coordinates::DDY,
\* the index-space derivative over the spacing
DDX_Field2D(f) ==
  [fld |-> FieldDiv(indexDDX(f, "CELL_DEFAULT", "DIFF_DEFAULT"), coords.dx),
   log |-> <<Event("indexDDX", f, "CELL_DEFAULT", "DIFF_DEFAULT")>>]

DDY_Field2D(f) ==
  [fld |-> FieldDiv(indexDDY(f, "CELL_DEFAULT", "DIFF_DEFAULT"), coords.dy),
   log |-> <<Event("indexDDY", f, "CELL_DEFAULT", "DIFF_DEFAULT")>>]

\* D2DXDY without the exchange of the Y-derivative's guard cells
D2DXDY_nosync(f) ==
  LET dfdy == DDY(f, "CELL_DEFAULT", "DIFF_DEFAULT")
      ddx == DDX(dfdy.fld, "CELL_DEFAULT", "DIFF_DEFAULT")
  IN [fld |-> ddx.fld, log |-> dfdy.log \o ddx.log]

\* D2DXDY(const Field3D&): dfdy = DDY(f); mesh->communicate(dfdy); return DDX(dfdy)
D2DXDY(f) ==
  LET dfdy == DDY(f, "CELL_DEFAULT", "DIFF_DEFAULT")
      ddx == DDX(communicate(dfdy.fld), "CELL_DEFAULT", "DIFF_DEFAULT")
  IN [fld |-> ddx.fld,
      log |-> dfdy.log \o <<Event("communicate", dfdy.fld, "-", "-")>> \o ddx.log]

\* D2DXDY(const Field2D&)
D2DXDY_Field2D(f) ==
  LET dfdy == DDY_Field2D(f)
      ddx == DDX_Field2D(communicate(dfdy.fld))
  IN [fld |-> ddx.fld,
      log |-> dfdy.log \o <<Event("communicate", dfdy.fld, "-", "-")>> \o ddx.log]

\* Field2D(BoutReal val): a new field holding val at every point; nothing of another
\* field is copied, the location tag is the one every new field starts with
Field2D(val) == [location |-> "CELL_CENTRE", data |-> [q \in Pts2(mesh) |-> val]]

\* DDZ(const Field2D &UNUSED(f))
DDZ_Field2D(f) == [fld |-> Field2D(0), log |-> <<>>]

\* D2DZ2(const Field2D &UNUSED(f))
D2DZ2_Field2D(f) == [fld |-> Field2D(0), log |-> <<>>]

\* D4DZ4(const Field2D &f): the zero field with the location of f set on it
D4DZ4_Field2D(f) ==
  LET loc == f.location
      result == Field2D(0)
  IN [fld |-> [result EXCEPT !.location = loc], log |-> <<>>]

\* Mesh::indexD2DX2, indexD2DY2, indexD2DZ2: the index-space second derivatives
indexD2DX2(f, outloc, method) == IndexDeriv(f, 1, 2, outloc, method, FALSE)

indexD2DY2(f, outloc, method) == IndexDeriv(f, 2, 2, outloc, method, FALSE)

indexD2DZ2(f, outloc, method, inc_xbndry) == IndexDeriv(f, 3, 2, outloc, method, inc_xbndry)

\* Mesh::indexVDDX, indexVDDY, indexVDDZ (axis 1, 2, 3): the advecting field v times
\* the index-space first derivative of f
IndexAdvect(v, f, axis, outloc, method) ==
  LET d == IndexDeriv(f, axis, 1, outloc, method, FALSE)
  IN [location |-> d.location, data |-> [q \in DOMAIN d.data |-> v.data[q] * d.data[q]]]

\* Mesh::indexFDDX, indexFDDY, indexFDDZ: the index-space first derivative of v * f
IndexFlux(v, f, axis, outloc, method) ==
  IndexDeriv([location |-> f.location,
              data |-> [q \in DOMAIN f.data |-> v.data[q] * f.data[q]]],
             axis, 1, outloc, method, FALSE)

FieldSub(f, h) ==
  [location |-> f.location, data |-> [q \in DOMAIN f.data |-> f.data[q] - h.data[q]]]

\* DDX, DDY, DDZ with the method before the location
DDX_default_location(f, method, outloc) == DDX(f, "CELL_DEFAULT", method)

DDX_method_first(f, method, outloc) == DDX(f, outloc, method)

DDY_method_first(f, method, outloc) == DDY(f, outloc, method)

DDZ_method_first(f, method, outloc, inc_xbndry) == DDZ(f, outloc, method, inc_xbndry)

\* DDZ of a Vector3D with the index pattern of the covariant case used for the
\* contravariant case too
DDZ_Vector3D_untransposed(v, outloc, method) ==
  LET dx == DDZ(v.x, outloc, method, FALSE)
      dy == DDZ(v.y, outloc, method, FALSE)
      dz == DDZ(v.z, outloc, method, FALSE)
      minus(d, g1, g2, g3) == FieldSub(FieldSub(FieldSub(d, FieldMul(g1, v.x)), FieldMul(g2, v.y)), FieldMul(g3, v.z))
      plus(d, g1, g2, g3) == FieldAdd(FieldAdd(FieldAdd(d, FieldMul(g1, v.x)), FieldMul(g2, v.y)), FieldMul(g3, v.z))
  IN [fld |-> IF v.covariant
              THEN [x |-> minus(dx.fld, coords.G1_13, coords.G2_13, coords.G3_13),
                    y |-> minus(dy.fld, coords.G1_23, coords.G2_23, coords.G3_23),
                    z |-> minus(dz.fld, coords.G1_33, coords.G2_33, coords.G3_33),
                    covariant |-> TRUE]
              ELSE [x |-> plus(dx.fld, coords.G1_13, coords.G2_13, coords.G3_13),
                    y |-> plus(dy.fld, coords.G1_23, coords.G2_23, coords.G3_23),
                    z |-> plus(dz.fld, coords.G1_33, coords.G2_33, coords.G3_33),
                    covariant |-> FALSE],
      log |-> dx.log \o dy.log \o dz.log]

\* DDZ(const Vector3D&, CELL_LOC, DIFF_METHOD): the Z-derivative of every component,
\* minus (covariant) or plus (contravariant) the Christoffel terms
DDZ_Vector3D(v, outloc, method) ==
  LET dx == DDZ(v.x, outloc, method, FALSE)
      dy == DDZ(v.y, outloc, method, FALSE)
      dz == DDZ(v.z, outloc, method, FALSE)
      minus(d, g1, g2, g3) == FieldSub(FieldSub(FieldSub(d, FieldMul(g1, v.x)), FieldMul(g2, v.y)), FieldMul(g3, v.z))
      plus(d, g1, g2, g3) == FieldAdd(FieldAdd(FieldAdd(d, FieldMul(g1, v.x)), FieldMul(g2, v.y)), FieldMul(g3, v.z))
  IN [fld |-> IF v.covariant
              THEN [x |-> minus(dx.fld, coords.G1_13, coords.G2_13, coords.G3_13),
                    y |-> minus(dy.fld, coords.G1_23, coords.G2_23, coords.G3_23),
                    z |-> minus(dz.fld, coords.G1_33, coords.G2_33, coords.G3_33),
                    covariant |-> TRUE]
              ELSE [x |-> plus(dx.fld, coords.G1_13, coords.G1_23, coords.G1_33),
                    y |-> plus(dy.fld, coords.G2_13, coords.G2_23, coords.G2_33),
                    z |-> plus(dz.fld, coords.G3_13, coords.G3_23, coords.G3_33),
                    covariant |-> FALSE],
      log |-> dx.log \o dy.log \o dz.log]

DDZ_Vector3D_method_first(v, method, outloc) == DDZ_Vector3D(v, outloc, method)

\* D2DX2 with the correction for a non-uniform mesh added whatever the flag
D2DX2_corrected_always(f, outloc, method) ==
  [fld |-> FieldAdd(FieldDiv(indexD2DX2(f, outloc, method), SQ(coords.dx)),
                    FieldDiv(FieldMul(coords.d1_dx, indexDDX(f, outloc, "DIFF_DEFAULT")),
                             coords.dx)),
   log |-> <<Event("indexD2DX2", f, outloc, method), Event("indexDDX", f, outloc, "DIFF_DEFAULT")>>]

\* D2DY2 without the correction for a non-uniform mesh
D2DY2_uncorrected(f, outloc, method) ==
  [fld |-> interp_to(FieldDiv(indexD2DY2(f, outloc, method), SQ(coords.dy)), outloc),
   log |-> <<Event("indexD2DY2", f, outloc, method)>>]

\* D2DX2(const Field3D&, CELL_LOC, DIFF_METHOD)
D2DX2(f, outloc, method) ==
  LET result == FieldDiv(indexD2DX2(f, outloc, method), SQ(coords.dx))
      ev == <<Event("indexD2DX2", f, outloc, method)>>
  IN IF coords.non_uniform
     THEN [fld |-> FieldAdd(result,
                            FieldDiv(FieldMul(coords.d1_dx, indexDDX(f, outloc, "DIFF_DEFAULT")),
                                     coords.dx)),
           log |-> ev \o <<Event("indexDDX", f, outloc, "DIFF_DEFAULT")>>]
     ELSE [fld |-> result, log |-> ev]

D2DX2_method_first(f, method, outloc) == D2DX2(f, outloc, method)

\* D2DY2(const Field3D&, CELL_LOC, DIFF_METHOD): as D2DX2, and the result goes
\* through interp_to(result, outloc)
D2DY2(f, outloc, method) ==
  LET result == FieldDiv(indexD2DY2(f, outloc, method), SQ(coords.dy))
      ev == <<Event("indexD2DY2", f, outloc, method)>>
  IN IF coords.non_uniform
     THEN [fld |-> interp_to(FieldAdd(result,
                                      FieldDiv(FieldMul(coords.d1_dy,
                                                        indexDDY(f, outloc, "DIFF_DEFAULT")),
                                               coords.dy)),
                             outloc),
           log |-> ev \o <<Event("indexDDY", f, outloc, "DIFF_DEFAULT")>>]
     ELSE [fld |-> interp_to(result, outloc), log |-> ev]

D2DY2_method_first(f, method, outloc) == D2DY2(f, outloc, method)

\* D2DX2(const Field2D&): mesh->indexD2DX2(f) and mesh->indexDDX(f) take the default
\* location and method
D2DX2_Field2D(f) ==
  LET result == FieldDiv(indexD2DX2(f, "CELL_DEFAULT", "DIFF_DEFAULT"), SQ(coords.dx))
      ev == <<Event("indexD2DX2", f, "CELL_DEFAULT", "DIFF_DEFAULT")>>
  IN IF coords.non_uniform
     THEN [fld |-> FieldAdd(result,
                            FieldDiv(FieldMul(coords.d1_dx,
                                              indexDDX(f, "CELL_DEFAULT", "DIFF_DEFAULT")),
                                     coords.dx)),
           log |-> ev \o <<Event("indexDDX", f, "CELL_DEFAULT", "DIFF_DEFAULT")>>]
     ELSE [fld |-> result, log |-> ev]

\* D2DY2(const Field2D&)
D2DY2_Field2D(f) ==
  LET result == FieldDiv(indexD2DY2(f, "CELL_DEFAULT", "DIFF_DEFAULT"), SQ(coords.dy))
      ev == <<Event("indexD2DY2", f, "CELL_DEFAULT", "DIFF_DEFAULT")>>
  IN IF coords.non_uniform
     THEN [fld |-> FieldAdd(result,
                            FieldDiv(FieldMul(coords.d1_dy,
                                              indexDDY(f, "CELL_DEFAULT", "DIFF_DEFAULT")),
                                     coords.dy)),
           log |-> ev \o <<Event("indexDDY", f, "CELL_DEFAULT", "DIFF_DEFAULT")>>]
     ELSE [fld |-> result, log |-> ev]

\* D2DZ2(const Field3D&, CELL_LOC, DIFF_METHOD, bool inc_xbndry)
D2DZ2(f, outloc, method, inc_xbndry) ==
  [fld |-> FieldDivReal(indexD2DZ2(f, outloc, method, inc_xbndry), coords.dz * coords.dz),
   log |-> <<Event("indexD2DZ2", f, outloc, method)>>]

D2DZ2_method_first(f, method, outloc, inc_xbndry) == D2DZ2(f, outloc, method, inc_xbndry)

\* VDDX, VDDY, VDDZ (const Field &v, const Field &f, CELL_LOC, DIFF_METHOD)
VDDX(v, f, outloc, method) ==
  [fld |-> FieldDiv(IndexAdvect(v, f, 1, outloc, method), coords.dx),
   log |-> <<Event("indexVDDX", f, outloc, method)>>]

VDDX_method_first(v, f, method, outloc) == VDDX(v, f, outloc, method)

VDDY(v, f, outloc, method) ==
  [fld |-> FieldDiv(IndexAdvect(v, f, 2, outloc, method), coords.dy),
   log |-> <<Event("indexVDDY", f, outloc, method)>>]

VDDY_method_first(v, f, method, outloc) == VDDY(v, f, outloc, method)

VDDZ(v, f, outloc, method) ==
  [fld |-> FieldDivReal(IndexAdvect(v, f, 3, outloc, method), coords.dz),
   log |-> <<Event("indexVDDZ", f, outloc, method)>>]

VDDZ_method_first(v, f, method, outloc) == VDDZ(v, f, outloc, method)

\* FDDX, FDDY (v, f, CELL_LOC, DIFF_METHOD), of two Field2D or of two Field3D: the
\* two bodies are the same
FDDX(v, f, outloc, method) ==
  [fld |-> FieldDiv(IndexFlux(v, f, 1, outloc, method), coords.dx),
   log |-> <<Event("indexFDDX", f, outloc, method)>>]

FDDX_method_first(v, f, method, outloc) == FDDX(v, f, outloc, method)

FDDY(v, f, outloc, method) ==
  [fld |-> FieldDiv(IndexFlux(v, f, 2, outloc, method), coords.dy),
   log |-> <<Event("indexFDDY", f, outloc, method)>>]

FDDY_method_first(v, f, method, outloc) == FDDY(v, f, outloc, method)

\* FDDZ(const Field3D&, const Field3D&, CELL_LOC, DIFF_METHOD)
FDDZ(v, f, outloc, method) ==
  [fld |-> FieldDivReal(IndexFlux(v, f, 3, outloc, method), coords.dz),
   log |-> <<Event("indexFDDZ", f, outloc, method)>>]

FDDZ_method_first(v, f, method, outloc) == FDDZ(v, f, outloc, method)

\* FDDZ of two Field2D: the overload with the method first is the one that returns
\* the zero field; the one with the location first calls it
FDDZ_Field2D_method_first(v, f, method, outloc) == [fld |-> Field2D(0), log |-> <<>>]

FDDZ_Field2D(v, f, outloc, method) == FDDZ_Field2D_method_first(v, f, method, outloc)

\* D2DYDZ of a 3D field with the two Y spacings exchanged
D2DYDZ_spacings_exchanged(f) ==
  LET LocalNz == mesh.ngz - 1
      kp(k) == (k + 1) % LocalNz
      km(k) == (k - 1 + LocalNz) % LocalNz
      val(i, j, k) ==
        ((((f.data[<<i, j + 1, kp(k)>>] - f.data[<<i, j - 1, kp(k)>>]) \div coords.dy[<<i, j - 1>>])
          - ((f.data[<<i, j + 1, km(k)>>] - f.data[<<i, j - 1, km(k)>>]) \div coords.dy[<<i, j + 1>>]))
         \div 4) \div coords.dz
      read(i, j, k) ==
        {<<i, j + 1, kp(k)>>, <<i, j - 1, kp(k)>>, <<i, j + 1, km(k)>>, <<i, j - 1, km(k)>>}
  IN [fld |-> [location |-> "CELL_CENTRE",
               data |-> [q \in DPts3(mesh) |->
                          IF Interior(q, FALSE) THEN val(q[1], q[2], q[3]) ELSE Garbage]],
      log |-> <<>>,
      reads |-> UNION { read(q[1], q[2], q[3]) : q \in {p \in DPts3(mesh) : Interior(p, FALSE)} }]

\* D2DYDZ(const Field3D&): result.allocate(), then at every interior point the
\* four-point stencil; kp and km are the Z neighbours, taken modulo LocalNz.  The
\* points outside the loops keep what allocate() left.  reads: the points of f read.
D2DYDZ(f) ==
  LET LocalNz == mesh.ngz - 1
      kp(k) == (k + 1) % LocalNz
      km(k) == (k - 1 + LocalNz) % LocalNz
      val(i, j, k) ==
        ((((f.data[<<i, j + 1, kp(k)>>] - f.data[<<i, j - 1, kp(k)>>]) \div coords.dy[<<i, j + 1>>])
          - ((f.data[<<i, j + 1, km(k)>>] - f.data[<<i, j - 1, km(k)>>]) \div coords.dy[<<i, j - 1>>]))
         \div 4) \div coords.dz
      read(i, j, k) ==
        {<<i, j + 1, kp(k)>>, <<i, j - 1, kp(k)>>, <<i, j + 1, km(k)>>, <<i, j - 1, km(k)>>}
  IN [fld |-> [location |-> "CELL_CENTRE",
               data |-> [q \in DPts3(mesh) |->
                          IF Interior(q, FALSE) THEN val(q[1], q[2], q[3]) ELSE Garbage]],
      log |-> <<>>,
      reads |-> UNION { read(q[1], q[2], q[3]) : q \in {p \in DPts3(mesh) : Interior(p, FALSE)} }]

(***************************************************************************)
(* The calls of the operators explored: sample fields at every cell        *)
(* location, every output location and method, on every coordinate system. *)
(***************************************************************************)
\* The mesh the operators are explored on: two guard cells, so that the widest
\* stencil stays inside the local domain, and three toroidal planes, so that the
\* plane after a plane is not the plane before it
DerivMesh ==
  MeshOf(2, 2, 2, 1, 3,
         [firstX |-> FALSE, lastX |-> FALSE, lowerY |-> NULL, upperY |-> NULL])

\* mesh->coordinates(): the spacings dx, dy (2D fields) and dz, the non-uniform
\* corrections d1_dx, d1_dy, the torsion factor, the Christoffel symbols Gi_j3; the
\* flags non_uniform and mesh->IncIntShear; halo: what the neighbours send in a
\* guard-cell exchange.
CoordsOf(m, p, nu, sh) ==
  [dx |-> [q \in Pts2(m) |-> 2 + p * q[1]],
   dy |-> [q \in Pts2(m) |-> 3 + p * q[2]],
   dz |-> 2,
   d1_dx |-> [q \in Pts2(m) |-> 5 + q[1]],
   d1_dy |-> [q \in Pts2(m) |-> 7 + q[2]],
   IntShiftTorsion |-> [q \in Pts2(m) |-> 1 + q[2]],
   non_uniform |-> nu,
   IncIntShear |-> sh,
   G1_13 |-> [q \in Pts2(m) |-> 11 + q[1]], G1_23 |-> [q \in Pts2(m) |-> 12 + q[1]],
   G1_33 |-> [q \in Pts2(m) |-> 13 + q[1]], G2_13 |-> [q \in Pts2(m) |-> 21 + q[1]],
   G2_23 |-> [q \in Pts2(m) |-> 22 + q[1]], G2_33 |-> [q \in Pts2(m) |-> 23 + q[1]],
   G3_13 |-> [q \in Pts2(m) |-> 31 + q[1]], G3_23 |-> [q \in Pts2(m) |-> 32 + q[1]],
   G3_33 |-> [q \in Pts2(m) |-> 33 + q[1]],
   halo |-> [q \in Pts2(m) |-> 40 + 9 * q[1] + 20 * q[2]]]

\* Spacings that vary from point to point, with every value of the two flags
CoordsSet(m) == { CoordsOf(m, 1, nu, sh) : nu \in BOOLEAN, sh \in BOOLEAN }

Fields3D ==
  { [location |-> l,
     data |-> [q \in DPts3(mesh) |->
                a * q[1] * q[1] * q[1] + q[2] * q[2] + 6 * q[1] * q[2]
                + c * q[3] * (q[1] + q[2] + 1)]] :
    a \in 0..MaxCoef, c \in 0..MaxCoef, l \in Locations }

Fields2D ==
  { [location |-> l,
     data |-> [q \in Pts2(mesh) |->
                a * q[1] * q[1] * q[1] + b * q[2] * q[2] + 6 * q[1] * q[2]]] :
    a \in 0..MaxCoef, b \in 0..MaxCoef, l \in Locations }

\* The advecting field tried with the advected field f: twice f plus one
Advecting(f) == [location |-> f.location, data |-> [q \in DOMAIN f.data |-> 2 * f.data[q] + 1]]

\* The vectors tried: components f, 2f+1 and 4f+3, in either basis
Vectors3D ==
  { [x |-> f, y |-> Advecting(f), z |-> Advecting(Advecting(f)), covariant |-> c] :
    f \in Fields3D, c \in BOOLEAN }

\* No operator was called yet
NoCall ==
  [op |-> "none", f |-> NULL, v |-> NULL, outloc |-> "CELL_DEFAULT",
   method |-> "DIFF_DEFAULT", order |-> "none", inc |-> FALSE,
   ret |-> [fld |-> NULL, log |-> <<>>]]

\* The record of one call
CallOf(op, f, v, outloc, method, order, ret) ==
  [op |-> op, f |-> f, v |-> v, outloc |-> outloc, method |-> method, order |-> order,
   inc |-> FALSE, ret |-> ret]

solver_vars ==
  <<mesh, f2d, f3d, v2d, v3d, u, du, codec, assigned, errlog, runlog, env, phase, initpc,
    done, res, ts, nout, tstep, simtime, next_time, outputnext, iteration, rhs_ncalls,
    rhs_wtime, initialised, nrhs, last, outlog>>

\* A call of the mixed derivative D2DXDY on a 2D or a 3D field
mixed_derivative ==
  /\ deriv = NoCall
  /\ \/ \E f \in Fields3D :
          deriv' = CallOf("D2DXDY", f, NULL, "CELL_DEFAULT", "DIFF_DEFAULT", "none", D2DXDY(f))
     \/ \E f \in Fields2D :
          deriv' = CallOf("D2DXDY_Field2D", f, NULL, "CELL_DEFAULT", "DIFF_DEFAULT", "none",
                          D2DXDY_Field2D(f))
  /\ UNCHANGED <<coords, fields, solver_vars>>

\* A call of a Z-derivative on a 2D field
degenerate_z ==
  /\ deriv = NoCall
  /\ \E f \in Fields2D :
       \/ deriv' = CallOf("DDZ_Field2D", f, NULL, "CELL_DEFAULT", "DIFF_DEFAULT", "none",
                          DDZ_Field2D(f))
       \/ deriv' = CallOf("D2DZ2_Field2D", f, NULL, "CELL_DEFAULT", "DIFF_DEFAULT", "none",
                          D2DZ2_Field2D(f))
       \/ deriv' = CallOf("D4DZ4_Field2D", f, NULL, "CELL_DEFAULT", "DIFF_DEFAULT", "none",
                          D4DZ4_Field2D(f))
  /\ UNCHANGED <<coords, fields, solver_vars>>

\* What the operator named op returns, called with the location before the method
LocationFirst(op, v, f, outloc, method, inc) ==
  CASE op = "DDX" -> DDX(f, outloc, method)
    [] op = "DDY" -> DDY(f, outloc, method)
    [] op = "DDZ" -> DDZ(f, outloc, method, inc)
    [] op = "D2DX2" -> D2DX2(f, outloc, method)
    [] op = "D2DY2" -> D2DY2(f, outloc, method)
    [] op = "D2DZ2" -> D2DZ2(f, outloc, method, inc)
    [] op = "DDZ_Vector3D" -> DDZ_Vector3D(f, outloc, method)
    [] op = "VDDX" -> VDDX(v, f, outloc, method)
    [] op = "VDDY" -> VDDY(v, f, outloc, method)
    [] op = "VDDZ" -> VDDZ(v, f, outloc, method)
    [] op = "FDDX" -> FDDX(v, f, outloc, method)
    [] op = "FDDY" -> FDDY(v, f, outloc, method)
    [] op = "FDDZ" -> FDDZ(v, f, outloc, method)
    [] op = "FDDZ_Field2D" -> FDDZ_Field2D(v, f, outloc, method)

\* What it returns called with the method before the location
MethodFirst(op, v, f, method, outloc, inc) ==
  CASE op = "DDX" -> DDX_method_first(f, method, outloc)
    [] op = "DDY" -> DDY_method_first(f, method, outloc)
    [] op = "DDZ" -> DDZ_method_first(f, method, outloc, inc)
    [] op = "D2DX2" -> D2DX2_method_first(f, method, outloc)
    [] op = "D2DY2" -> D2DY2_method_first(f, method, outloc)
    [] op = "D2DZ2" -> D2DZ2_method_first(f, method, outloc, inc)
    [] op = "DDZ_Vector3D" -> DDZ_Vector3D_method_first(f, method, outloc)
    [] op = "VDDX" -> VDDX_method_first(v, f, method, outloc)
    [] op = "VDDY" -> VDDY_method_first(v, f, method, outloc)
    [] op = "VDDZ" -> VDDZ_method_first(v, f, method, outloc)
    [] op = "FDDX" -> FDDX_method_first(v, f, method, outloc)
    [] op = "FDDY" -> FDDY_method_first(v, f, method, outloc)
    [] op = "FDDZ" -> FDDZ_method_first(v, f, method, outloc)
    [] op = "FDDZ_Field2D" -> FDDZ_Field2D_method_first(v, f, method, outloc)

\* The operators that take a location and a method in either order, and the inputs
\* each is tried with: [f, v, inc]
TwoOrderOps ==
  {"DDX", "DDY", "DDZ", "D2DX2", "D2DY2", "D2DZ2", "DDZ_Vector3D",
   "VDDX", "VDDY", "VDDZ", "FDDX", "FDDY", "FDDZ", "FDDZ_Field2D"}

InputsOf(op) ==
  CASE op \in {"DDX", "DDY", "D2DX2", "D2DY2"} ->
         { [f |-> f, v |-> NULL, inc |-> FALSE] : f \in Fields3D }
    [] op \in {"DDZ", "D2DZ2"} ->
         { [f |-> f, v |-> NULL, inc |-> i] : f \in Fields3D, i \in BOOLEAN }
    [] op = "DDZ_Vector3D" -> { [f |-> w, v |-> NULL, inc |-> FALSE] : w \in Vectors3D }
    [] op \in {"VDDX", "VDDY", "VDDZ", "FDDZ"} ->
         { [f |-> f, v |-> Advecting(f), inc |-> FALSE] : f \in Fields3D }
    [] op \in {"FDDX", "FDDY"} ->
         { [f |-> f, v |-> Advecting(f), inc |-> FALSE] : f \in Fields3D \cup Fields2D }
    [] op = "FDDZ_Field2D" -> { [f |-> f, v |-> Advecting(f), inc |-> FALSE] : f \in Fields2D }

\* A call operator(..., outloc, method)
location_first ==
  /\ deriv = NoCall
  /\ \E op \in TwoOrderOps : \E in \in InputsOf(op) : \E outloc \in OutLocs, method \in Methods :
       deriv' = [CallOf(op, in.f, in.v, outloc, method, "location_first",
                        LocationFirst(op, in.v, in.f, outloc, method, in.inc))
                 EXCEPT !.inc = in.inc]
  /\ UNCHANGED <<coords, fields, solver_vars>>

\* A call operator(..., method, outloc)
method_first ==
  /\ deriv = NoCall
  /\ \E op \in TwoOrderOps : \E in \in InputsOf(op) : \E outloc \in OutLocs, method \in Methods :
       deriv' = [CallOf(op, in.f, in.v, outloc, method, "method_first",
                        MethodFirst(op, in.v, in.f, method, outloc, in.inc))
                 EXCEPT !.inc = in.inc]
  /\ UNCHANGED <<coords, fields, solver_vars>>

\* The fields D2DYDZ is tried with: the sample fields times 96, so that every
\* division of the stencil by a spacing is exact
StencilFields ==
  { [location |-> f.location, data |-> [q \in DOMAIN f.data |-> 96 * f.data[q]]] :
    f \in Fields3D }

\* A call of the mixed derivative D2DYDZ on a 3D field
mixed_yz_derivative ==
  /\ deriv = NoCall
  /\ \E f \in StencilFields :
       deriv' = CallOf("D2DYDZ", f, NULL, "CELL_DEFAULT", "DIFF_DEFAULT", "none", D2DYDZ(f))
  /\ UNCHANGED <<coords, fields, solver_vars>>

\* A call of D2DX2 or D2DY2 on a 2D field
second_derivative_Field2D ==
  /\ deriv = NoCall
  /\ \E f \in Fields2D :
       \/ deriv' = CallOf("D2DX2_Field2D", f, NULL, "CELL_DEFAULT", "DIFF_DEFAULT", "none",
                          D2DX2_Field2D(f))
       \/ deriv' = CallOf("D2DY2_Field2D", f, NULL, "CELL_DEFAULT", "DIFF_DEFAULT", "none",
                          D2DY2_Field2D(f))
  /\ UNCHANGED <<coords, fields, solver_vars>>

(***************************************************************************)
(* The codec entry points and the residual function called one by one on   *)
(* any registry: variables without storage, away from their declared       *)
(* location or basis.  (rhs calls them in the order load_vars, run_rhs,    *)
(* save_derivs; init calls save_vars first.)                               *)
(***************************************************************************)
\* Registries whose 3D variables are not at their declared cell location
MislocatedRegs(m) ==
  { [ScalarReg(m, 1, 2) EXCEPT !.f3d[1].var.location = "CELL_XLOW"],
    [ScalarReg(m, 1, 3) EXCEPT !.f3d[2].var.location = "CELL_CENTRE",
                               !.f3d[3].var.data = NULL,
                               !.v3d = <<VecStr(FALSE, TRUE)>>] }

\* The buffer handed to load_vars: every entry holds a value of its own
StateBuffer == [j \in 1..getLocalN |-> 7000000 + j]

\* The other members of the solver, which these calls leave alone
call_frame ==
  <<mesh, coords, deriv, fields, env, assigned, errlog, runlog, u, phase, initpc, done, res, ts,
    nout, tstep, simtime, next_time, outputnext, iteration, initialised, nrhs, outlog>>

load_vars_call ==
  /\ phase = "constructed"
  /\ ~codec["LOAD_VARS"].ran
  /\ \E L \in {load_vars(StateBuffer, f2d, f3d, v2d, v3d)} :
       /\ f2d' = L.f2d
       /\ f3d' = L.f3d
       /\ v2d' = L.v2d
       /\ v3d' = L.v3d
       /\ codec' = [codec EXCEPT !["LOAD_VARS"] = [ran |-> TRUE, lay |-> L.lay, vis |-> L.vis]]
       /\ last' = [last EXCEPT !.udata = StateBuffer, !.trace = L.trace,
                               !.before = [f2d |-> f2d, f3d |-> f3d, v2d |-> v2d, v3d |-> v3d]]
  /\ UNCHANGED <<du, rhs_ncalls, rhs_wtime>>
  /\ UNCHANGED call_frame

\* The user's residual function, called on variables that all have storage
run_rhs_call ==
  /\ phase = "constructed"
  /\ rhs_ncalls = 0
  /\ \A i \in 1..Len(f2d) : f2d[i].var.data # NULL
  /\ \A i \in 1..Len(f3d) : f3d[i].var.data # NULL
  /\ \E R \in {run_rhs(simtime, [f2d |-> f2d, f3d |-> f3d, v2d |-> v2d, v3d |-> v3d], 0, 1)} :
       /\ f2d' = R.f2d
       /\ f3d' = R.f3d
       /\ v2d' = R.v2d
       /\ v3d' = R.v3d
       /\ rhs_ncalls' = R.rhs_ncalls
       /\ rhs_wtime' = R.rhs_wtime
  /\ UNCHANGED <<du, codec, last>>
  /\ UNCHANGED call_frame

save_derivs_call ==
  /\ phase = "constructed"
  /\ rhs_ncalls >= 1
  /\ ~codec["SAVE_DERIVS"].ran
  /\ \E S \in {save_derivs([j \in 1..getLocalN |-> Garbage], f2d, f3d, v2d, v3d)} :
       /\ f2d' = S.f2d
       /\ f3d' = S.f3d
       /\ v2d' = S.v2d
       /\ v3d' = S.v3d
       /\ du' = S.udata
       /\ codec' = [codec EXCEPT !["SAVE_DERIVS"] = [ran |-> TRUE, lay |-> S.lay, vis |-> S.vis]]
       /\ last' = [last EXCEPT !.trace = S.trace,
                               !.before = [f2d |-> f2d, f3d |-> f3d, v2d |-> v2d, v3d |-> v3d]]
  /\ UNCHANGED <<rhs_ncalls, rhs_wtime>>
  /\ UNCHANGED call_frame

(***************************************************************************)
(* The operations of FieldData on its boundary operators.                  *)
(***************************************************************************)
\* The elements of a set of region numbers in the order the mesh lists them
RECURSIVE InOrder(_)
InOrder(S) ==
  IF S = {} THEN <<>>
  ELSE LET r == CHOOSE x \in S : \A y \in S : x <= y IN <<r>> \o InOrder(S \ {r})

\* The operators createFromOptions allocates for the regions it has options for
Created(f, regs, par) ==
  [k \in 1..Len(regs) |-> [by |-> f, region |-> regs[k], par |-> par, deleted |-> <<>>]]

\* FieldData::setBoundary(name): an operator is pushed to the back of bndry_op for every
\* boundary region the factory returns one for, and to the back of bndry_op_par for
\* every parallel region; the lists are not emptied first.
setBoundary(F, f, made, madepar) ==
  LET ops == Created(f, InOrder(made), FALSE)
      pars == Created(f, InOrder(madepar), TRUE)
      n == Len(F.heap)
  IN  [obj |-> [F.obj EXCEPT
                  ![f].bndry_op = @ \o [k \in 1..Len(ops) |-> n + k],
                  ![f].bndry_op_par = @ \o [k \in 1..Len(pars) |-> n + Len(ops) + k],
                  ![f].boundaryIsSet = TRUE,
                  ![f].boundaryIsCopy = FALSE],
       heap |-> F.heap \o ops \o pars]

\* FieldData::copyBoundary(g): both lists are assigned from g, the operators are shared
copyBoundary(F, f, g) ==
  [F EXCEPT !.obj[f].bndry_op = F.obj[g].bndry_op,
            !.obj[f].bndry_op_par = F.obj[g].bndry_op_par,
            !.obj[f].boundaryIsCopy = TRUE,
            !.obj[f].boundaryIsSet = TRUE]

\* The operators in a list of addresses
Held(list) == { list[k] : k \in 1..Len(list) }

\* FieldData::~FieldData(): unless boundaryIsCopy, delete on every element of bndry_op
\* (bndry_op_par is not deleted)
FieldData_destructor(F, f) ==
  [obj |-> [F.obj EXCEPT ![f].alive = FALSE],
   heap |-> IF F.obj[f].boundaryIsCopy THEN F.heap
            ELSE [o \in 1..Len(F.heap) |->
                    IF o \in Held(F.obj[f].bndry_op)
                    THEN [F.heap[o] EXCEPT !.deleted = Append(@, f)]
                    ELSE F.heap[o]]]

\* A call of setBoundary(name) on a field; the factory has options for any of the regions
set_boundary ==
  /\ \E f \in FieldIds, made \in SUBSET (1..MaxRegions), madepar \in SUBSET (1..MaxParRegions) :
       /\ fields.obj[f].alive
       /\ Len(fields.heap) + Cardinality(made) + Cardinality(madepar) <= MaxOps
       /\ fields' = setBoundary(fields, f, made, madepar)
  /\ UNCHANGED <<coords, deriv, solver_vars>>

\* A call of copyBoundary on a field, from any field not yet destroyed
copy_boundary ==
  /\ \E f \in FieldIds, g \in FieldIds :
       /\ fields.obj[f].alive
       /\ fields.obj[g].alive
       /\ fields' = copyBoundary(fields, f, g)
       /\ fields' # fields
  /\ UNCHANGED <<coords, deriv, solver_vars>>

\* A field goes out of scope
destroy_field ==
  /\ \E f \in FieldIds :
       /\ fields.obj[f].alive
       /\ fields' = FieldData_destructor(fields, f)
  /\ UNCHANGED <<coords, deriv, solver_vars>>

(***************************************************************************)
(* Specifications.                                                         *)
(***************************************************************************)
vars ==
  <<mesh, coords, deriv, fields, f2d, f3d, v2d, v3d, u, du, codec, assigned, errlog, runlog, env, phase, initpc, done, res, ts, nout,
    tstep, simtime, next_time, outputnext, iteration, rhs_ncalls, rhs_wtime, initialised,
    nrhs, last, outlog>>

\* The solver is used on a mesh whose operators have not been called
DerivIdle == coords = CoordsOf(mesh, 0, FALSE, FALSE) /\ deriv = NoCall

Next ==
  \/ init
  \/ init_resume
  \/ run
  \/ solver_f
  \/ TSSubStep
  \/ run_return
  \/ destructor

\* The scheduling of outputs: one small mesh and registry, every output interval and
\* count, with and without the slow Jacobian probe.
Init ==
  InitWith(Scenarios(
    { EnvOf([DefaultOptions EXCEPT !.J_slowfd = sl], 0, TRUE, no, tsp, MaxDt, MaxRhs,
            {0, 1}, 0, "CELL_CENTRE", TRUE, 1..MaxDt, 1..MaxWall) :
        sl \in BOOLEAN, no \in 1..MaxNout, tsp \in 1..MaxTstep },
    {SmallMesh}, {ScalarReg(SmallMesh, 1, 1)}))
  /\ DerivIdle

Spec == Init /\ [][Next]_vars

\* The output trigger under any sequence of evaluation times: the smallest and the
\* largest output count, output interval and sub-step length, with and without the
\* slow Jacobian probe; the residual function always succeeds.
SchedInit ==
  InitWith(Scenarios(
    { EnvOf([DefaultOptions EXCEPT !.J_slowfd = sl], 0, TRUE, no, tsp, MaxDt, MaxRhs,
            {0}, 0, "CELL_CENTRE", TRUE, {1, MaxDt}, {1}) :
        sl \in BOOLEAN, no \in {1, MaxNout}, tsp \in {1, MaxTstep} },
    {SmallMesh}, {ScalarReg(SmallMesh, 1, 1)}))
  /\ DerivIdle

SchedSpec == SchedInit /\ [][Next]_vars

\* The codec: every mesh shape with registries of scalars and one residual evaluation
\* (of u or of another state), and every registry on the largest mesh with two
\* evaluations, so that u is loaded again after another state was.
CodecEnv(sl, evals, fl, fc) ==
  EnvOf([DefaultOptions EXCEPT !.J_slowfd = sl], 0, TRUE, 1, 1, 1, evals, {0}, 1, fl, fc,
        {1}, {1})

CodecInit ==
  InitWith(
    UNION { Scenarios({CodecEnv(FALSE, 1, "CELL_CENTRE", TRUE)}, {m},
                      {ScalarReg(m, 1, 1), ScalarReg(m, MaxScalars, MaxScalars)}) :
            m \in Meshes }
    \cup Scenarios({CodecEnv(FALSE, 2, "CELL_CENTRE", TRUE),
                    CodecEnv(FALSE, 2, "CELL_YLOW", FALSE)},
                   {FullMesh},
                   ScalarRegs(FullMesh) \cup VectorRegs(FullMesh) \cup UnallocRegs(FullMesh))
    \cup Scenarios({CodecEnv(TRUE, 2, "CELL_YLOW", TRUE)}, {SmallMesh},
                   {ScalarReg(SmallMesh, 1, 1)}))
  /\ DerivIdle

CodecSpec == CodecInit /\ [][Next]_vars

\* Initialisation and teardown: every option, every failing call.
SetupInit ==
  InitWith(Scenarios(
    UNION { { EnvOf(opt, fault, marks, 1, 1, 1, 1, {0}, 0, "CELL_CENTRE", TRUE, {1}, {1}) :
                fault \in 0..Len(InitSteps(opt)), marks \in BOOLEAN } :
            opt \in Options },
    {SmallMesh}, {ScalarReg(SmallMesh, 1, 1)} \cup UnallocRegs(SmallMesh)))
  /\ DerivIdle

SetupSpec == SetupInit /\ [][Next]_vars

\* The codec entry points on any registry: on the smallest mesh and on the largest,
\* with every location and basis the residual function can leave the derivatives in.
CallNext ==
  \/ load_vars_call
  \/ run_rhs_call
  \/ save_derivs_call

CallInit ==
  InitWith(UNION { Scenarios({ CodecEnv(FALSE, 1, fl, fc) : fl \in Locations, fc \in BOOLEAN },
                             {m},
                             ScalarRegs(m) \cup VectorRegs(m) \cup UnallocRegs(m)
                             \cup MislocatedRegs(m)) :
                   m \in {SmallMesh, FullMesh} })
  /\ DerivIdle

CallSpec == CallInit /\ [][CallNext]_vars

\* The boundary operators: every order of setBoundary, copyBoundary and destruction on
\* the fields; the solver is constructed and left alone.
FieldNext ==
  \/ set_boundary
  \/ copy_boundary
  \/ destroy_field

FieldInit ==
  InitWith(Scenarios({CodecEnv(FALSE, 1, "CELL_CENTRE", TRUE)}, {SmallMesh},
                     {ScalarReg(SmallMesh, 1, 1)}))
  /\ DerivIdle

FieldSpec == FieldInit /\ [][FieldNext]_vars

\* The differential operators: one call, of any operator with any input, on every
\* coordinate system (the operators keep no state between calls); the solver is
\* constructed and left alone.
DerivNext ==
  \/ mixed_derivative
  \/ degenerate_z
  \/ second_derivative_Field2D
  \/ mixed_yz_derivative
  \/ location_first
  \/ method_first

DerivInit ==
  /\ InitWith(Scenarios({CodecEnv(FALSE, 1, "CELL_CENTRE", TRUE)}, {DerivMesh},
                        {ScalarReg(DerivMesh, 1, 1)}))
  /\ coords \in CoordsSet(DerivMesh)
  /\ deriv = NoCall

DerivSpec == DerivInit /\ [][DerivNext]_vars

(***************************************************************************)
(* Claims about the state-vector codec (specification CodecSpec).          *)
(***************************************************************************)
\* A residual evaluation has loaded the very buffer SAVE filled
LoadedSaved == codec["LOAD_VARS"].ran /\ last.udata = u

\* C1 as stated: after SAVE (save_vars) into a buffer and LOAD (load_vars) from that
\* buffer, every registered 2D and 3D variable has, at every point of the local mesh,
\* exactly the value assigned to it before SAVE.
C1_RoundTripAssigned ==
  LoadedSaved =>
    /\ \A i \in 1..Len(f2d) : \A q \in Pts2(mesh) :
         f2d[i].var.data[q] = assigned.f2d[i].var.data[q]
    /\ \A i \in 1..Len(f3d) : \A q \in Pts3(mesh) :
         f3d[i].var.data[q] = assigned.f3d[i].var.data[q]

\* The value SAVE copies for field i of the list F (with vectors V) at point q: the
\* assigned value, unless the field is component r of a vector held in the other
\* basis than the declared one, whose components SAVE first converts with the metric.
Harmonized(F, V, i, q) ==
  IF \E k \in 1..Len(V) : \E r \in 1..3 : V[k].c[r] = i /\ V[k].var_cov # V[k].covariant
    THEN LET k == CHOOSE k \in 1..Len(V) : \E r \in 1..3 : V[k].c[r] = i
             r == CHOOSE r \in 1..3 : V[k].c[r] = i
             g == IF V[k].covariant THEN g_cov ELSE g_con
         IN g[r][1] * F[V[k].c[1]].var.data[q] + g[r][2] * F[V[k].c[2]].var.data[q]
            + g[r][3] * F[V[k].c[3]].var.data[q]
    ELSE F[i].var.data[q]

\* C1 (amended): after SAVE into a buffer and LOAD from that buffer, every registered
\* variable has at every point of the local mesh the value SAVE copied: the assigned
\* value for scalars and for vectors held in their declared basis, the assigned
\* components converted to the declared basis for a vector held in the other basis.
C1_RoundTrip ==
  LoadedSaved =>
    /\ \A i \in 1..Len(f2d) : \A q \in Pts2(mesh) :
         f2d[i].var.data[q] = Harmonized(assigned.f2d, assigned.v2d, i, q)
    /\ \A i \in 1..Len(f3d) : \A q \in Pts3(mesh) :
         f3d[i].var.data[q] = Harmonized(assigned.f3d, assigned.v3d, i, q)

\* C1 witness: on the largest mesh, with a 3D vector registered in the other basis
\* than its declared one, the buffer SAVE filled is loaded after another state was
\* loaded over the fields.
C1_Witness ==
  /\ LoadedSaved
  /\ nrhs = 2
  /\ mesh = FullMesh
  /\ Len(v3d) = 1
  /\ assigned.v3d[1].var_cov # assigned.v3d[1].covariant
  /\ f3d[1].var.data # assigned.f3d[1].var.data

\* C2: SAVE, LOAD and SAVE-DERIVS assign the same buffer index to the same
\* (location, variable, plane) triple: the layouts of all traversals made so far,
\* whatever their mode and however often repeated, are one and the same.
C2_OrderDeterminism ==
  \A a \in Ops : \A b \in Ops :
    (codec[a].ran /\ codec[b].ran) => codec[a].lay = codec[b].lay

\* C2 witness: all three modes have traversed, the residual more than once, and the
\* buffer holds entries of 2D and of 3D variables
C2_Witness ==
  /\ \A a \in Ops : codec[a].ran
  /\ nrhs >= 2
  /\ \E k \in 1..Len(codec["LOAD_VARS"].lay) : codec["LOAD_VARS"].lay[k].dim = 2
  /\ \E k \in 1..Len(codec["LOAD_VARS"].lay) : codec["LOAD_VARS"].lay[k].dim = 3

\* The region a location belongs to: 1 inner-X stripe, 2 lower-Y boundary, 3 bulk,
\* 4 upper-Y boundary, 5 outer-X stripe
Region(q) ==
  CASE q[2] < mesh.ystart -> 2
    [] q[2] > mesh.yend -> 4
    [] q[1] < mesh.xstart -> 1
    [] q[1] > mesh.xend -> 5
    [] OTHER -> 3

\* The number of locations of region r among the visits V
Visits(V, r) == Cardinality({k \in 1..Len(V) : Region(V[k]) = r})

\* The visits V of a Y-boundary region r, which begin after the first `before' visits,
\* follow the boundary iterator `it' (outer), with Y ascending over ys (inner)
IteratorOrder(V, r, before, it, ys) ==
  /\ Visits(V, r) = Len(it) * Len(ys)
  /\ \A k \in 1..Len(V) :
       Region(V[k]) = r =>
         V[k] = <<it[((k - before - 1) \div Len(ys)) + 1],
                  ys[((k - before - 1) % Len(ys)) + 1]>>

\* The visits V of an X stripe or of the bulk are exactly the locations xs x ys, with
\* X ascending (outer) and Y ascending (inner): each visit of the region comes
\* before the next in this order (the visits of a region follow one another)
AscendingOrder(V, r, xs, ys) ==
  /\ {V[k] : k \in {j \in 1..Len(V) : Region(V[j]) = r}} = xs \X ys
  /\ \A k \in 1..(Len(V) - 1) :
       (Region(V[k]) = r /\ Region(V[k + 1]) = r) =>
          \/ V[k][1] < V[k + 1][1]
          \/ V[k][1] = V[k + 1][1] /\ V[k][2] < V[k + 1][2]

\* C3: every traversal visits the regions in the order inner-X stripe (only on the
\* first X processor), lower-Y boundary, bulk, upper-Y boundary, outer-X stripe (only
\* on the last X processor); X ascending outside and Y ascending inside in stripes and
\* bulk; the boundary iterator outside and Y ascending inside in the Y boundaries.
C3_CanonicalOrder ==
  \A op \in Ops :
    codec[op].ran =>
      LET V == codec[op].vis
      IN /\ \A k \in 1..(Len(V) - 1) : Region(V[k]) <= Region(V[k + 1])
         /\ AscendingOrder(V, 1, IF mesh.firstX THEN 0..(mesh.xstart - 1) ELSE {},
                           mesh.ystart..mesh.yend)
         /\ IteratorOrder(V, 2, Visits(V, 1), mesh.lowerY, Range(0, mesh.ystart - 1))
         /\ AscendingOrder(V, 3, mesh.xstart..mesh.xend, mesh.ystart..mesh.yend)
         /\ IteratorOrder(V, 4, Visits(V, 1) + Visits(V, 2) + Visits(V, 3), mesh.upperY,
                          Range(mesh.yend + 1, mesh.ngy - 1))
         /\ AscendingOrder(V, 5, IF mesh.lastX THEN (mesh.xend + 1)..(mesh.ngx - 1) ELSE {},
                           mesh.ystart..mesh.yend)

\* C3 witness: a residual evaluation has traversed a mesh on which each of the five
\* regions has several locations in X and in Y
C3_Witness ==
  /\ codec["SAVE_DERIVS"].ran
  /\ mesh = FullMesh
  /\ \A r \in 1..5 : Visits(codec["SAVE_DERIVS"].vis, r) >= 4

\* The variable value a buffer entry e stands for, in the fields F2 and F3
EntryOf(e, F2, F3, part) ==
  IF e.dim = 2 THEN F2[e.i + 1][part].data[<<e.x, e.y>>]
               ELSE F3[e.i + 1][part].data[<<e.x, e.y, e.z>>]

\* C4: at each visited location the buffer holds first the 2D variables in
\* registration order, then for each plane z < ngz-1 in ascending order the 3D
\* variables in registration order; each entry holds the value of that variable there.
C4_WithinPoint ==
  \A op \in Ops :
    codec[op].ran =>
      LET V == codec[op].vis
          L == codec[op].lay
          stride == n2Dvars + n3Dvars * (mesh.ngz - 1)
      IN /\ Len(L) = Len(V) * stride
         /\ \A k \in 1..Len(V) :
              /\ \A i \in 0..(n2Dvars - 1) :
                   L[(k - 1) * stride + i + 1] =
                     [x |-> V[k][1], y |-> V[k][2], z |-> -1, dim |-> 2, i |-> i]
              /\ \A z \in 0..(mesh.ngz - 2) : \A i \in 0..(n3Dvars - 1) :
                   L[(k - 1) * stride + n2Dvars + z * n3Dvars + i + 1] =
                     [x |-> V[k][1], y |-> V[k][2], z |-> z, dim |-> 3, i |-> i]
         /\ \A p \in 1..Len(L) :
              CASE op = "SAVE_VARS" ->
                     nrhs = 0 => u[p] = EntryOf(L[p], f2d, f3d, "var")
                [] op = "LOAD_VARS" -> EntryOf(L[p], f2d, f3d, "var") = last.udata[p]
                [] op = "SAVE_DERIVS" -> du[p] = EntryOf(L[p], f2d, f3d, "F_var")

\* C4 witness: a residual evaluation has traversed with several 2D variables, several
\* 3D variables and several planes
C4_Witness ==
  /\ codec["SAVE_DERIVS"].ran
  /\ n2Dvars >= 2
  /\ n3Dvars >= 2
  /\ mesh.ngz - 1 >= 2

(***************************************************************************)
(* Claims about output scheduling (specification Spec).                    *)
(***************************************************************************)
\* Every increment of the iteration counter so far was made inside run, by a residual
\* evaluation whose time was not below that of the evaluation before it
RegularRun == \A j \in 1..Len(outlog) : outlog[j].in_run /\ outlog[j].mono

\* C5: for a fixed output interval tstep and residual evaluations at non-decreasing
\* times, the k-th increment of the iteration counter happens exactly at simulation
\* time k*tstep, never earlier and never later.
C5_OutputTimeExact ==
  RegularRun => \A k \in 1..Len(outlog) : outlog[k].t = k * tstep

\* C6: whenever a residual evaluation triggers an output, the new next output time is
\* the previous next output time plus the output interval, never the evaluation time
\* plus the interval.
C6_NoDrift ==
  \A k \in 1..Len(outlog) :
    outlog[k].in_run => outlog[k].next = outlog[k].prev + tstep

\* C7: before each internal sub-step of the integrator the pre-step hook runs: when
\* the time plus the proposed sub-step reaches or passes next_time the step taken is
\* clamped to land exactly on next_time and outputnext is set; otherwise outputnext is
\* cleared and the sub-step is taken as proposed.
C7_PreStepClamp ==
  [][(phase = "stepping" /\ ts'.steps = ts.steps + 1) =>
       IF ts.time + ts.dt >= next_time
         THEN ts'.time = next_time /\ outputnext'
         ELSE ts'.time = ts.time + ts.dt /\ ~outputnext']_vars

\* C8: when the residual function returns nonzero, rhs returns nonzero to the
\* integrator and leaves the simulation time, the iteration counter, the per-interval
\* counters and the next output time as they were before the call.
C8_FaultPropagation ==
  [][(nrhs' = nrhs + 1 /\ last'.flag # 0) =>
       /\ last'.ret # 0
       /\ UNCHANGED <<simtime, iteration, rhs_ncalls, rhs_wtime, next_time>>]_vars

(***************************************************************************)
(* Claims about init and teardown (specification SetupSpec).               *)
(***************************************************************************)
\* The steps of init completed so far, as a set
Done == {done[k] : k \in 1..Len(done)}

\* init has returned 0
InitComplete == Len(done) = Len(InitSteps(env.opt))

LoadSteps ==
  {"PetscViewerBinaryOpen:read", "MatLoad", "PetscViewerDestroy:read", "TSSetRHSJacobian:load"}

CreateSteps ==
  {"MatCreate", "MatSetSizes", "MatSetFromOptions", "MatSeqAIJSetPreallocation",
   "MatMPIAIJSetPreallocation", "TSSetRHSJacobian:create"}

SlowSteps == {"PetscPrintf:slowfd", "TSDefaultComputeJacobian"}

ColorSteps ==
  {"MatGetColoring", "MatFDColoringCreate", "ISColoringDestroy", "MatFDColoringSetFunction",
   "MatFDColoringSetFromOptions", "TSSetRHSJacobian:color"}

\* C9 as stated: init establishes the Jacobian by exactly one strategy, by priority
\* load, slow finite-difference probing, graph coloring; only the construction steps
\* of the selected strategy run, and the Jacobian callback registered at the end of
\* init is the one of the selected strategy.
C9_OneStrategy ==
  (phase = "ready" /\ InitComplete) =>
    CASE env.opt.J_load ->
           /\ LoadSteps \subseteq Done
           /\ Done \cap (SlowSteps \cup ColorSteps) = {}
           /\ ts.jac = "TSDefaultComputeJacobian"
      [] ~env.opt.J_load /\ env.opt.J_slowfd ->
           /\ SlowSteps \subseteq Done
           /\ Done \cap (LoadSteps \cup ColorSteps) = {}
           /\ ts.jac = "TSDefaultComputeJacobian"
      [] OTHER ->
           /\ ColorSteps \subseteq Done
           /\ Done \cap (LoadSteps \cup SlowSteps) = {}
           /\ ts.jac = "TSDefaultComputeJacobianColor"

\* C9 (amended): init obtains the matrix J in exactly one way, by loading it when a
\* load file is configured and by creating it otherwise; the slow finite-difference
\* probe runs exactly when no load file is configured and the slow-probe option is
\* set; whatever the options, the coloring steps run afterwards and the callback left
\* registered at the end of init is the coloring one.
C9_JacobianSetup ==
  (phase = "ready" /\ InitComplete) =>
    /\ IF env.opt.J_load
         THEN LoadSteps \subseteq Done /\ Done \cap (CreateSteps \cup SlowSteps) = {}
         ELSE CreateSteps \subseteq Done /\ Done \cap LoadSteps = {}
    /\ (SlowSteps \subseteq Done) <=> (~env.opt.J_load /\ env.opt.J_slowfd)
    /\ (Done \cap SlowSteps # {}) => (SlowSteps \subseteq Done)
    /\ ColorSteps \subseteq Done
    /\ \A j \in 1..Len(done) : \A k \in 1..Len(done) :
         (done[j] \in LoadSteps \cup CreateSteps \cup SlowSteps /\ done[k] \in ColorSteps)
           => j < k
    /\ ts.jac = "TSDefaultComputeJacobianColor"
    /\ res.J = "live"
    /\ res.matfdcoloring = "live"

\* C9 witness: init has completed with both the load file and the slow-probe option
\* configured
C9_Witness ==
  /\ phase = "ready"
  /\ InitComplete
  /\ env.opt.J_load
  /\ env.opt.J_slowfd
  /\ "MatLoad" \in Done

\* C10: destroying the driver releases the state vector, the Jacobian matrix, the
\* coloring context and the integrator context together if and only if init ran to
\* completion; otherwise it releases nothing; and never is a resource released that
\* was not created, or released twice.
C10_Teardown ==
  phase = "destroyed" =>
    /\ InitComplete => \A r \in DOMAIN res : res[r] = "freed"
    /\ ~InitComplete => \A r \in DOMAIN res : res[r] # "freed"
    /\ \A r \in DOMAIN res : res[r] # "bad"

\* A registered variable has no backing storage when init is called
Unallocated ==
  \/ \E i \in 1..Len(assigned.f2d) : assigned.f2d[i].var.data = NULL
  \/ \E i \in 1..Len(assigned.f3d) : assigned.f3d[i].var.data = NULL

\* init has come as far as its call of save_vars
SaveReached == "VecGetArray" \in Done

\* C11: when a registered 2D or 3D variable has unallocated backing storage, save_vars
\* returns nonzero without writing a buffer entry and without converting a vector's
\* basis; init reports the error, returns nonzero to its caller and creates neither
\* the integrator nor the Jacobian.
C11_SaveUnallocated ==
  (Unallocated /\ SaveReached) =>
    /\ phase \in {"failed", "destroyed"}
    /\ errlog = << "Initial variable value not set" >>
    /\ \A j \in 1..Len(u) : u[j] = Garbage
    /\ ~codec["SAVE_VARS"].ran
    /\ <<f2d, f3d, v2d, v3d>> = <<assigned.f2d, assigned.f3d, assigned.v2d, assigned.v3d>>
    /\ Done \cap {"save_vars", "VecRestoreArray", "TSCreate", "MatCreate", "MatLoad",
                  "TSSetRHSFunction"} = {}
    /\ res.ts \in {"none", "bad"}
    /\ res.J \in {"none", "bad"}

\* C11 witness: init has returned from the failed SAVE of a registry with an
\* unallocated 2D variable and a vector held in the other basis than declared
C11_Witness ==
  /\ Unallocated
  /\ SaveReached
  /\ phase = "failed"
  /\ Len(v3d) = 1
  /\ v3d[1].var_cov # v3d[1].covariant

\* The time-derivatives as the residual function left them in the last evaluation,
\* before SAVE_DERIVS: fields in the shape Harmonized reads, and the vectors with the
\* basis the residual function left them in
Residual(F) ==
  [i \in 1..Len(F) |->
     [var |-> [data |-> [q \in DOMAIN F[i].var.data |-> F[i].var.data[q] + last.t + 1]]]]

ResidualBasis(V) == [k \in 1..Len(V) |-> [V[k] EXCEPT !.var_cov = env.Fcov]]

\* The time-derivative of 3D field i in the declared basis, at point q
Declared3(i, q) == Harmonized(Residual(f3d), ResidualBasis(v3d), i, q)

\* The value SAVE_DERIVS copies for buffer entry e: the time-derivative in the declared
\* basis, for a 3D field then brought to the field's own cell location
DerivOf(e) ==
  IF e.dim = 2
    THEN Harmonized(Residual(f2d), ResidualBasis(v2d), e.i + 1, <<e.x, e.y>>)
    ELSE IF f3d[e.i + 1].location # env.Floc
           THEN Declared3(e.i + 1, <<e.x, e.y, e.z>>)
                + Declared3(e.i + 1, <<e.x, IF e.y > 0 THEN e.y - 1 ELSE e.y, e.z>>)
           ELSE Declared3(e.i + 1, <<e.x, e.y, e.z>>)

\* The value SAVE copies for buffer entry e
StateOf(e) ==
  IF e.dim = 2 THEN Harmonized(assigned.f2d, assigned.v2d, e.i + 1, <<e.x, e.y>>)
               ELSE Harmonized(assigned.f3d, assigned.v3d, e.i + 1, <<e.x, e.y, e.z>>)

\* C12: SAVE brings every vector variable, and SAVE_DERIVS every vector
\* time-derivative, to its declared basis before a value is copied: the buffer holds
\* the components in the declared basis, the vector is marked as held in it, and a
\* vector already in its declared basis is copied as it is.
C12_BasisHarmonization ==
  /\ (codec["SAVE_VARS"].ran /\ nrhs = 0) =>
       /\ \A p \in 1..Len(u) : u[p] = StateOf(codec["SAVE_VARS"].lay[p])
       /\ \A k \in 1..Len(v2d) : v2d[k].var_cov = v2d[k].covariant
       /\ \A k \in 1..Len(v3d) : v3d[k].var_cov = v3d[k].covariant
  /\ codec["SAVE_DERIVS"].ran =>
       /\ \A p \in 1..Len(du) : du[p] = DerivOf(codec["SAVE_DERIVS"].lay[p])
       /\ \A k \in 1..Len(v2d) : v2d[k].F_cov = v2d[k].covariant
       /\ \A k \in 1..Len(v3d) : v3d[k].F_cov = v3d[k].covariant

\* C12 witness: a 3D vector declared covariant was populated contravariant, and the
\* residual function left its time-derivative contravariant; both were saved
C12_Witness ==
  /\ codec["SAVE_DERIVS"].ran
  /\ Len(v3d) = 1
  /\ v3d[1].covariant
  /\ ~assigned.v3d[1].var_cov
  /\ ~env.Fcov

\* C13 as stated: each call of run makes exactly one call of the integrator's step
\* function and returns to its caller the number of sub-steps that call took and the
\* simulation time it reached.
C13_RunReturnsSteps ==
  phase = "ran" =>
    /\ runlog.tsstep = 1
    /\ {"steps", "ftime"} \subseteq DOMAIN runlog.ret
    /\ runlog.ret.steps = ts.steps
    /\ runlog.ret.ftime = ts.time

\* C13 (amended): each call of run makes exactly one call of the integrator's step
\* function and returns to its caller the status of that call and nothing else; the
\* number of sub-steps and the time reached are not returned.
C13_RunReturnsStatus ==
  phase = "ran" =>
    /\ runlog.tsstep = 1
    /\ runlog.ret = [status |-> ts.status]

\* C13 witness: run has returned after the integrator took sub-steps and ended with
\* a nonzero status
C13_Witness ==
  /\ phase = "ran"
  /\ ts.steps >= 1
  /\ ts.status # 0
  /\ runlog.ret # NULL

\* init has been called (it saves NOUT, which is positive, first thing)
InitCalled == nout # 0

\* C14: when the sum-reduction of the local variable counts (MPI_Allreduce) fails,
\* init returns nonzero, and no state vector is allocated, no initial SAVE is made,
\* no integrator is created and no callback is registered.
C14_ReductionFailure ==
  (env.fault = 1 /\ InitCalled) =>
    /\ phase \in {"failed", "destroyed"}
    /\ initpc = 1
    /\ done = <<>>
    /\ u = NULL
    /\ res.u \notin {"live", "freed"}
    /\ ~codec["SAVE_VARS"].ran
    /\ <<f2d, f3d, v2d, v3d>> = <<assigned.f2d, assigned.f3d, assigned.v2d, assigned.v3d>>
    /\ res.ts \notin {"live", "freed"}
    /\ ts.rhs = "none"
    /\ ts.jac = "none"
    /\ ts.prestep = "none"

\* C14 witness: init has returned after the reduction failed, with every variable
\* allocated
C14_Witness ==
  /\ env.fault = 1
  /\ phase = "failed"
  /\ ~Unallocated

(***************************************************************************)
(* Claims about the differential operators (specification DerivSpec).      *)
(***************************************************************************)
\* The positions in a log of the calls of one mesh primitive
CallsOf(log, call) == { k \in 1..Len(log) : log[k].call = call }

MixedCalled == deriv.op \in {"D2DXDY", "D2DXDY_Field2D"}

\* The Y-derivative of the input of the last call: the index-space derivative over dy
YDerivative ==
  FieldDiv(indexDDY(deriv.f, "CELL_DEFAULT", "DIFF_DEFAULT"), coords.dy)

DegenerateOps == {"DDZ_Field2D", "D2DZ2_Field2D", "D4DZ4_Field2D"}

\* C16 as stated: for any 2D field with any values and any cell location, DDZ, D2DZ2
\* and D4DZ4 return a field that is zero at every point and whose cell-location tag
\* equals the cell location of the input field.
C16_DegenerateZ ==
  deriv.op \in DegenerateOps =>
    /\ \A q \in Pts2(mesh) : deriv.ret.fld.data[q] = 0
    /\ deriv.ret.fld.location = deriv.f.location

SecondCalled(axis) ==
  deriv.op \in (IF axis = 1 THEN {"D2DX2", "D2DX2_Field2D"} ELSE {"D2DY2", "D2DY2_Field2D"})

\* The index-space second and first derivative of the input of the last call at the
\* requested location, the spacing and the correction factor along the axis
IndexSecond(axis) ==
  IF axis = 1 THEN indexD2DX2(deriv.f, deriv.outloc, deriv.method)
              ELSE indexD2DY2(deriv.f, deriv.outloc, deriv.method)

IndexFirst(axis) ==
  IF axis = 1 THEN indexDDX(deriv.f, deriv.outloc, "DIFF_DEFAULT")
              ELSE indexDDY(deriv.f, deriv.outloc, "DIFF_DEFAULT")

Spacing(axis) == IF axis = 1 THEN coords.dx ELSE coords.dy

CorrectionFactor(axis) == IF axis = 1 THEN coords.d1_dx ELSE coords.d1_dy

\* The correction term: d(1/h)/d(index) * index_deriv1(f) / h
CorrectionTerm(axis) ==
  FieldDiv(FieldMul(CorrectionFactor(axis), IndexFirst(axis)), Spacing(axis))

\* C18: when the mesh's non-uniform flag is false, D2DX2 and D2DY2 of a 2D or 3D field
\* equal exactly the index-space second derivative divided by the square of the grid
\* spacing, for every input, output location and method, and no correction term is
\* evaluated: the one mesh primitive called is the index-space second derivative.
C18_UniformReduction ==
  \A axis \in {1, 2} :
    (SecondCalled(axis) /\ ~coords.non_uniform) =>
      /\ deriv.ret.fld = FieldDiv(IndexSecond(axis), SQ(Spacing(axis)))
      /\ Len(deriv.ret.log) = 1
      /\ deriv.ret.log[1].call \in {"indexD2DX2", "indexD2DY2"}

\* A call of D2DX2 on a uniform mesh where the correction term would not have vanished
C18_Witness ==
  /\ deriv.op = "D2DX2"
  /\ ~coords.non_uniform
  /\ deriv.method = "DIFF_C4"
  /\ \E q \in DOMAIN deriv.f.data : CorrectionTerm(1).data[q] # 0
  /\ \E q \in DOMAIN deriv.f.data : deriv.ret.fld.data[q] # 0

\* C19: when the non-uniform flag is true, D2DX2(f) = index_deriv2(f)/h^2 +
\* d(1/h)/d(index) * index_deriv1(f)/h, with h the X spacing and index_deriv1 the
\* index-space first X-derivative (default method) of the same field at the same
\* output location: it differs from the uniform-grid value by exactly the correction
\* term, point by point; D2DY2 likewise with the Y spacing and Y correction factor.
C19_NonUniformCorrection ==
  \A axis \in {1, 2} :
    (SecondCalled(axis) /\ coords.non_uniform) =>
      /\ deriv.ret.fld.location = IndexSecond(axis).location
      /\ \A q \in DOMAIN deriv.f.data :
           deriv.ret.fld.data[q] - FieldDiv(IndexSecond(axis), SQ(Spacing(axis))).data[q]
             = CorrectionTerm(axis).data[q]

\* A call of D2DY2 on a non-uniform mesh with a correction term that does not vanish
C19_Witness ==
  /\ deriv.op = "D2DY2"
  /\ coords.non_uniform
  /\ deriv.method = "DIFF_C4"
  /\ deriv.outloc = "CELL_YLOW"
  /\ \E q \in DOMAIN deriv.f.data : CorrectionTerm(2).data[q] # 0

(***************************************************************************)
(* Claims about the residual callback (specification SetupSpec).           *)
(***************************************************************************)
\* The fields and vectors of a registry, without the traversal's bookkeeping
RegistryOf(S) == [f2d |-> S.f2d, f3d |-> S.f3d, v2d |-> S.v2d, v3d |-> S.v3d]

\* C20: every call rhs(t, stateIn, stateOut) performs, in this order and each exactly
\* once, LOAD from stateIn, the user residual function with time t (on the loaded
\* state), SAVE_DERIVS into stateOut (of what the residual function left), and only
\* then sets the recorded simulation time to t; the output-time test is made after
\* all four.
C20_RhsStepOrder ==
  nrhs > 0 =>
    LET T == last.trace
        loaded == T[2].state
        left == T[3].derivs
    IN /\ [k \in 1..Len(T) |-> T[k].step]
            = <<"load_vars", "run_rhs", "save_derivs", "simtime = t", "t >= next_time">>
       /\ T[1].from = last.udata
       /\ RegistryOf(load_vars(last.udata, loaded.f2d, loaded.f3d, loaded.v2d, loaded.v3d))
            = loaded
       /\ T[2].t = last.t
       /\ RegistryOf(run_rhs(last.t, loaded, last.flag, 0)) = left
       /\ T[3].into = du
       /\ save_derivs([j \in 1..Len(du) |-> Garbage], left.f2d, left.f3d, left.v2d,
                      left.v3d).udata = du
       /\ \A k \in 1..3 : T[k].simtime = last.before[1]
       /\ T[4].simtime = last.t /\ T[5].simtime = last.t
       /\ T[5].taken = (last.t >= last.before[5])
       /\ simtime = last.t

\* A residual evaluation at a time other than the recorded one that passed the
\* output-time test
C20_Witness ==
  /\ nrhs > 0
  /\ last.t # last.before[1]
  /\ last.trig
  /\ du # u

LoadReturned == Len(last.trace) = 3 /\ last.trace[1].step = "allocate"

\* C22: after load_vars, whatever the registry held before, every 2D and 3D variable
\* has backing storage, every value at a traversed point equals the buffer entry of
\* that point, every 3D variable is at its declared cell location and every vector
\* variable's basis flag is its declared basis; storage and location are set before
\* the first value is copied, the basis flags after the last.
C22_LoadPostcondition ==
  LoadReturned =>
    LET B == last.before
        A == last.trace[1]
        C == last.trace[2]
        D == last.trace[3]
        L == codec["LOAD_VARS"].lay
    IN \* before the copy: storage exists (what was there is kept), locations restored,
       \* nothing else touched
       /\ \A i \in 1..Len(B.f2d) :
            /\ DOMAIN A.f2d[i].var.data = Pts2(mesh)
            /\ B.f2d[i].var.data # NULL => A.f2d[i].var.data = B.f2d[i].var.data
       /\ \A i \in 1..Len(B.f3d) :
            /\ DOMAIN A.f3d[i].var.data = Pts3(mesh)
            /\ B.f3d[i].var.data # NULL => A.f3d[i].var.data = B.f3d[i].var.data
            /\ A.f3d[i].var.location = B.f3d[i].location
       /\ A.v2d = B.v2d /\ A.v3d = B.v3d
       \* the copy: every entry of the buffer is where the traversal put it
       /\ L # <<>>
       /\ \A p \in 1..Len(L) : EntryOf(L[p], C.f2d, C.f3d, "var") = last.udata[p]
       /\ \A i \in 1..Len(B.f3d) : C.f3d[i].var.location = B.f3d[i].location
       /\ C.v2d = B.v2d /\ C.v3d = B.v3d
       \* after the copy: the basis flags, and nothing else
       /\ D.f2d = C.f2d /\ D.f3d = C.f3d
       /\ \A k \in 1..Len(D.v2d) : D.v2d[k].var_cov = B.v2d[k].covariant
       /\ \A k \in 1..Len(D.v3d) : D.v3d[k].var_cov = B.v3d[k].covariant
       \* which is what the registry holds since
       /\ \A i \in 1..Len(f2d) : f2d[i].var = D.f2d[i].var /\ f2d[i].var.data # NULL
       /\ \A i \in 1..Len(f3d) :
            /\ f3d[i].var = D.f3d[i].var
            /\ f3d[i].var.data # NULL
            /\ f3d[i].var.location = f3d[i].location
       /\ \A k \in 1..Len(v2d) : v2d[k].var_cov = v2d[k].covariant
       /\ \A k \in 1..Len(v3d) : v3d[k].var_cov = v3d[k].covariant

\* C22 witness: load_vars was called on the largest mesh with a 3D variable without
\* storage, another away from its declared location, and a 3D vector held in the
\* other basis than its declared one
C22_Witness ==
  /\ LoadReturned
  /\ mesh = FullMesh
  /\ \E i \in 1..Len(f3d) : last.before.f3d[i].var.data = NULL
  /\ \E i \in 1..Len(f3d) : last.before.f3d[i].var.location # f3d[i].location
  /\ Len(v3d) = 1
  /\ last.before.v3d[1].var_cov # v3d[1].covariant
  /\ \A i \in 1..Len(f3d) : f3d[i].var.location = f3d[i].location

\* The last codec call made was save_derivs
SaveDerivsReturned == Len(last.trace) = 3 /\ last.trace[1].step = "basis"

\* The time-derivative of field i of the list F (with vectors V) at point q in the
\* declared basis: as it is, unless the field is component r of a vector whose
\* time-derivative is held in the other basis than the declared one
Reconciled(F, V, i, q) ==
  IF \E k \in 1..Len(V) : \E r \in 1..3 : V[k].c[r] = i /\ V[k].F_cov # V[k].covariant
    THEN LET k == CHOOSE k \in 1..Len(V) : \E r \in 1..3 : V[k].c[r] = i
             r == CHOOSE r \in 1..3 : V[k].c[r] = i
             g == IF V[k].covariant THEN g_cov ELSE g_con
         IN g[r][1] * F[V[k].c[1]].F_var.data[q] + g[r][2] * F[V[k].c[2]].F_var.data[q]
            + g[r][3] * F[V[k].c[3]].F_var.data[q]
    ELSE F[i].F_var.data[q]

\* The 3D time-derivatives of the registry R that are not at their declared location
Displaced(R) == {i \in 1..Len(R.f3d) : R.f3d[i].F_var.location # R.f3d[i].location}

\* C23: save_derivs first brings every vector time-derivative to its declared basis,
\* then interpolates onto the declared location exactly the 3D time-derivatives that
\* are not at it (the others are left as they are), and only then writes the buffer;
\* when the values are copied every 3D time-derivative is at its declared location.
C23_SaveDerivsOrder ==
  SaveDerivsReturned =>
    LET B == last.before
        A == last.trace[1]
        C == last.trace[2]
        D == last.trace[3]
        L == codec["SAVE_DERIVS"].lay
    IN \* the basis: components converted, locations and buffer untouched
       /\ \A i \in 1..Len(B.f2d) : \A q \in Pts2(mesh) :
            A.f2d[i].F_var.data[q] = Reconciled(B.f2d, B.v2d, i, q)
       /\ \A i \in 1..Len(B.f3d) :
            /\ \A q \in Pts3(mesh) : A.f3d[i].F_var.data[q] = Reconciled(B.f3d, B.v3d, i, q)
            /\ A.f3d[i].F_var.location = B.f3d[i].F_var.location
       /\ \A j \in 1..Len(A.dudata) : A.dudata[j] = Garbage
       \* the interpolation: exactly the displaced fields, nothing written yet
       /\ C.f2d = A.f2d
       /\ \A i \in 1..Len(A.f3d) :
            IF i \in Displaced(A)
              THEN /\ C.f3d[i].F_var = interp_to(A.f3d[i].F_var, A.f3d[i].location)
                   /\ C.f3d[i].F_var # A.f3d[i].F_var
              ELSE C.f3d[i] = A.f3d[i]
       /\ C.dudata = A.dudata
       \* the copy: of fields that are all at their declared location
       /\ Displaced(C) = {}
       /\ D.f2d = C.f2d /\ D.f3d = C.f3d
       /\ L # <<>>
       /\ \A p \in 1..Len(L) : D.dudata[p] = EntryOf(L[p], C.f2d, C.f3d, "F_var")
       /\ du = D.dudata
       /\ \A k \in 1..Len(v2d) : v2d[k].F_cov = v2d[k].covariant
       /\ \A k \in 1..Len(v3d) : v3d[k].F_cov = v3d[k].covariant

\* C23 witness: save_derivs was called on the largest mesh with a 3D vector whose
\* time-derivative was in the other basis than the declared one, one component away
\* from its declared location and another at it
C23_Witness ==
  /\ SaveDerivsReturned
  /\ mesh = FullMesh
  /\ Len(v3d) = 1
  /\ last.before.v3d[1].F_cov # v3d[1].covariant
  /\ Displaced(last.before) # {}
  /\ Displaced(last.before) # 1..Len(f3d)
  /\ \A j \in 1..Len(du) : du[j] # Garbage

(***************************************************************************)
(* Claims about the torsion term and the vector and mixed Z-derivatives    *)
(* (specification DerivSpec).                                              *)
(***************************************************************************)
\* DDX of a 3D field was called
DDXCalled == deriv.op = "DDX"

\* C24: DDX of a 3D field is the index-space X-derivative over the X spacing, plus
\* the torsion factor times the Z-derivative of the field taken at the same requested
\* output location when the mesh uses the integrated-shear representation; without
\* it, exactly the index-space X-derivative over the X spacing, and no Z-derivative
\* is evaluated.
C24_TorsionCorrection ==
  DDXCalled =>
    LET ix == indexDDX(deriv.f, deriv.outloc, deriv.method)
        iz == indexDDZ(deriv.f, deriv.outloc, "DIFF_DEFAULT", FALSE)
        zcalls == CallsOf(deriv.ret.log, "indexDDZ")
    IN /\ CallsOf(deriv.ret.log, "indexDDX") = {1}
       /\ deriv.ret.log[1] = Event("indexDDX", deriv.f, deriv.outloc, deriv.method)
       /\ deriv.ret.fld.location = ix.location
       /\ IF coords.IncIntShear
            THEN /\ zcalls = {2}
                 /\ deriv.ret.log[2].arg = deriv.f
                 /\ deriv.ret.log[2].outloc = deriv.outloc
                 /\ iz.location = ix.location
                 /\ \A q \in DPts3(mesh) :
                      deriv.ret.fld.data[q] =
                        (ix.data[q] \div coords.dx[<<q[1], q[2]>>])
                        + coords.IntShiftTorsion[<<q[1], q[2]>>] * (iz.data[q] \div coords.dz)
            ELSE /\ zcalls = {}
                 /\ Len(deriv.ret.log) = 1
                 /\ \A q \in DPts3(mesh) :
                      deriv.ret.fld.data[q] = ix.data[q] \div coords.dx[<<q[1], q[2]>>]

\* C24 witness: on a mesh with integrated shear, DDX was asked for a result at
\* another location than the field's, and the torsion term changed the result
C24_Witness ==
  /\ DDXCalled
  /\ coords.IncIntShear
  /\ deriv.outloc \notin {"CELL_DEFAULT", deriv.f.location}
  /\ deriv.method # "DIFF_DEFAULT"
  /\ \E q \in DPts3(mesh) :
       deriv.ret.fld.data[q]
         # indexDDX(deriv.f, deriv.outloc, deriv.method).data[q] \div coords.dx[<<q[1], q[2]>>]

\* DDZ of a 3D vector was called
VectorDDZCalled == deriv.op = "DDZ_Vector3D"

\* The Christoffel symbol of the second kind with upper index up and lower indices
\* (low, 3), at the (x,y) of point q
Christoffel(up, low, q) ==
  LET G == << <<coords.G1_13, coords.G1_23, coords.G1_33>>,
              <<coords.G2_13, coords.G2_23, coords.G2_33>>,
              <<coords.G3_13, coords.G3_23, coords.G3_33>> >>
  IN G[up][low][<<q[1], q[2]>>]

\* Component i of the vector w
Component(w, i) == <<w.x, w.y, w.z>>[i]

\* C25: for a covariant 3D vector v, component i of DDZ(v) is the Z-derivative of v_i
\* minus the sum over j of v_j G^j_{i3}; for a contravariant one it is the
\* Z-derivative of v^i plus the sum over j of v^j G^i_{j3}; which formula is used
\* depends on the basis flag of the input alone, and the result carries that flag.
C25_VectorDDZ ==
  VectorDDZCalled =>
    LET v == deriv.f
        r == deriv.ret.fld
        raw(i) == DDZ(Component(v, i), deriv.outloc, deriv.method, FALSE).fld
    IN /\ r.covariant = v.covariant
       /\ \A i \in 1..3 :
            /\ Component(r, i).location = raw(i).location
            /\ \A q \in DPts3(mesh) :
                 Component(r, i).data[q] =
                   IF v.covariant
                     THEN raw(i).data[q] - Christoffel(1, i, q) * v.x.data[q]
                          - Christoffel(2, i, q) * v.y.data[q]
                          - Christoffel(3, i, q) * v.z.data[q]
                     ELSE raw(i).data[q] + Christoffel(i, 1, q) * v.x.data[q]
                          + Christoffel(i, 2, q) * v.y.data[q]
                          + Christoffel(i, 3, q) * v.z.data[q]

\* C25 witness: DDZ of a contravariant vector whose components vary in Z, where the
\* transposed index pattern gives another value than the untransposed one would
C25_Witness ==
  /\ VectorDDZCalled
  /\ ~deriv.f.covariant
  /\ ~deriv.ret.fld.covariant
  /\ \E q \in DPts3(mesh) :
       /\ DDZ(deriv.f.x, deriv.outloc, deriv.method, FALSE).fld.data[q] # 0
       /\ deriv.ret.fld.y.data[q] #
            DDZ(deriv.f.y, deriv.outloc, deriv.method, FALSE).fld.data[q]
            + Christoffel(1, 2, q) * deriv.f.x.data[q]
            + Christoffel(2, 2, q) * deriv.f.y.data[q]
            + Christoffel(3, 2, q) * deriv.f.z.data[q]

\* D2DYDZ of a 3D field was called
MixedYZCalled == deriv.op = "D2DYDZ"

\* The Z neighbours of plane k on a periodic grid of n planes
ZNext(k, n) == IF k = n - 1 THEN 0 ELSE k + 1

ZPrev(k, n) == IF k = 0 THEN n - 1 ELSE k - 1

\* The Y-difference f(i,j+1,k) - f(i,j-1,k) of the input of the last call
YDifference(i, j, k) == deriv.f.data[<<i, j + 1, k>>] - deriv.f.data[<<i, j - 1, k>>]

\* C26: at every interior point (i,j,k), D2DYDZ of a 3D field is the Y-difference at
\* the Z neighbour k+1 over the Y spacing at (i,j+1), minus the Y-difference at the Z
\* neighbour k-1 over the Y spacing at (i,j-1), times 0.25/dz; the Z neighbours wrap
\* (after the last plane comes plane 0, before plane 0 the last), and no point
\* outside the planes 0 .. LocalNz-1 is read.
C26_MixedYZStencil ==
  MixedYZCalled =>
    LET LocalNz == mesh.ngz - 1
    IN /\ \A i \in mesh.xstart..mesh.xend : \A j \in mesh.ystart..mesh.yend :
            \A k \in 0..(LocalNz - 1) :
              deriv.ret.fld.data[<<i, j, k>>] =
                (((YDifference(i, j, ZNext(k, LocalNz)) \div coords.dy[<<i, j + 1>>])
                  - (YDifference(i, j, ZPrev(k, LocalNz)) \div coords.dy[<<i, j - 1>>]))
                 \div 4) \div coords.dz
       /\ \A p \in deriv.ret.reads : p \in DPts3(mesh)
       /\ deriv.ret.reads =
            UNION { {<<i, j + 1, k>>, <<i, j - 1, k>>} :
                    i \in mesh.xstart..mesh.xend, j \in mesh.ystart..mesh.yend,
                    k \in 0..(LocalNz - 1) }

\* C26 witness: D2DYDZ of a field that varies in Z, on a grid of at least three
\* planes and unequal Y spacings: at a point of the last plane the forward neighbour
\* is plane 0, and the result is not zero there
C26_Witness ==
  /\ MixedYZCalled
  /\ mesh.ngz - 1 >= 3
  /\ \E i \in mesh.xstart..mesh.xend : \E j \in mesh.ystart..mesh.yend :
       /\ coords.dy[<<i, j + 1>>] # coords.dy[<<i, j - 1>>]
       /\ YDifference(i, j, 0) # YDifference(i, j, mesh.ngz - 3)
       /\ deriv.ret.fld.data[<<i, j, mesh.ngz - 2>>] # 0
       /\ deriv.ret.fld.data[<<i, j, mesh.ngz - 2>>] # deriv.ret.fld.data[<<i, j, 0>>]

(***************************************************************************)
(* Claims about the coverage of the buffer (specification CodecSpec).      *)
(***************************************************************************)
\* The sequence it has no element twice
NoRepeat(it) == Cardinality({it[k] : k \in 1..Len(it)}) = Len(it)

\* C27: provided each Y-boundary iterator yields every X index at most once, a
\* traversal in any mode visits every point of the local grid at most once and moves
\* on in the buffer by n2d + n3d*(ngz-1) entries per visited point: the entries
\* 0 .. N-1, N = visited points * (n2d + n3d*(ngz-1)), are each accessed exactly
\* once, one after the other, none left out and none accessed twice.
C27_BufferCoverage ==
  \A op \in Ops :
    (codec[op].ran /\ NoRepeat(mesh.lowerY) /\ NoRepeat(mesh.upperY)) =>
      LET V == codec[op].vis
          L == codec[op].lay
          N == Len(V) * (n2Dvars + n3Dvars * (mesh.ngz - 1))
      IN \* every point is a point of the local grid, visited once
         /\ \A k \in 1..Len(V) : V[k] \in Pts2(mesh)
         /\ NoRepeat(V)
         \* one access per (point, variable, plane), N in all
         /\ Len(L) = N
         /\ NoRepeat(L)
         \* the k-th access is that of entry k-1: entry k-1 holds the k-th value moved
         /\ CASE op = "SAVE_VARS" ->
                   nrhs = 0 => /\ N <= Len(u)
                               /\ \A k \in 1..N : u[k] = EntryOf(L[k], f2d, f3d, "var")
              [] op = "LOAD_VARS" ->
                   /\ N <= Len(last.udata)
                   /\ \A k \in 1..N : EntryOf(L[k], f2d, f3d, "var") = last.udata[k]
              [] op = "SAVE_DERIVS" ->
                   /\ N <= Len(du)
                   /\ \A k \in 1..N : du[k] = EntryOf(L[k], f2d, f3d, "F_var")

\* C27 witness: the three modes have traversed a mesh whose Y boundaries are visited
\* through iterators, one of them out of ascending order, with X stripes on both
\* sides, several variables of each kind and several planes; no two entries of the
\* buffer loaded hold the same value, so that a value tells which entry it was read from
C27_Witness ==
  /\ \A op \in Ops : codec[op].ran
  /\ NoRepeat(last.udata)
  /\ mesh.firstX /\ mesh.lastX
  /\ Len(mesh.lowerY) >= 2
  /\ Len(mesh.upperY) >= 2 /\ mesh.upperY[1] > mesh.upperY[2]
  /\ n2Dvars >= 2 /\ n3Dvars >= 2 /\ mesh.ngz - 1 >= 2
  /\ Len(codec["LOAD_VARS"].lay)
       = Len(codec["LOAD_VARS"].vis) * (n2Dvars + n3Dvars * (mesh.ngz - 1))
  /\ Len(codec["LOAD_VARS"].vis) >= 9

\* run has been called
RunCalled == runlog.tsstep >= 1

\* C28: with a positive output interval, once run has been called the next output
\* time is strictly greater than the recorded simulation time after every residual
\* evaluation, whatever times the integrator evaluates at (repeated or decreasing
\* times included).
C28_NextOutputAhead ==
  (RunCalled /\ tstep > 0) => next_time > simtime

\* C28 witness: inside run the integrator has evaluated the residual at a time below
\* that of an earlier evaluation, after an output was counted
C28_Witness ==
  /\ RunCalled
  /\ last.in_run
  /\ ~last.mono
  /\ tstep > 0
  /\ \E j \in 1..Len(outlog) : outlog[j].in_run
  /\ simtime = last.t
  /\ next_time > simtime

\* C29: the iteration counter is incremented only by residual evaluations made after
\* run has set the next output time; the evaluations made during init by the slow
\* finite-difference Jacobian probe never increment it.
C29_NoOutputBeforeRun ==
  /\ ~RunCalled => iteration = 0
  /\ \A j \in 1..Len(outlog) : outlog[j].in_run

\* C30: over any sequence of setBoundary, copyBoundary and destruction, every boundary
\* operator is deleted at most once, no surviving field holds a deleted operator, and a
\* field that obtained its list by copyBoundary deletes none of the operators it shares
\* (an operator is deleted only by the field whose setBoundary allocated it).
C30_BoundaryOwnership ==
  /\ \A o \in 1..Len(fields.heap) : Len(fields.heap[o].deleted) <= 1
  /\ \A f \in FieldIds :
       fields.obj[f].alive =>
         \A o \in Held(fields.obj[f].bndry_op) : fields.heap[o].deleted = <<>>
  /\ \A o \in 1..Len(fields.heap) :
       \A k \in 1..Len(fields.heap[o].deleted) : fields.heap[o].deleted[k] = fields.heap[o].by

====
